---- MODULE Spec2Model ----
(***************************************************************************)
(* SentinelPro: the supply-projection and alerting engine of               *)
(* server/storage.ts (getSupplyProjections, generateSupplyAlerts), the     *)
(* alert store accessors they use, and the routes that drive them.         *)
(*                                                                         *)
(* Numbers.  The source computes in IEEE doubles.  Here every real number  *)
(* is an exact rational <<num, den>> with den > 0; Math.floor and          *)
(* Math.round are taken on the exact value.  The job histories and stock   *)
(* values of this model are chosen so that no quotient stock/predicted     *)
(* is an exact positive integer and no variance equals a threshold: away   *)
(* from those points the double result and the exact result coincide.      *)
(*                                                                         *)
(* Text.  A message or title is a sequence of tokens: a word or a number.  *)
(* Template literals build token sequences, the regular expression         *)
(* /(\d+) día/ scans them.                                                 *)
(***************************************************************************)
EXTENDS Integers, Sequences, FiniteSets, TLC

----------------------------------------------------------------------------
(* Bounds of the model *)

\* HTTP requests served in a run, of any route
MaxRequests == 3
\* store operations that throw in a run
MaxFailures == 1

\* the request handlers that can be in flight together
Workers == {1, 2}

----------------------------------------------------------------------------
(* Text *)

Word(s) == [k |-> "w", s |-> s, n |-> 0]
Num(n) == [k |-> "d", s |-> "", n |-> n]
\* a number printed with two decimals at most: n is the value times 100
Dec(n) == [k |-> "f", s |-> "", n |-> n]

\* words that begin with the letters "día"
DiaWords == {"día(s).", "día"}

\* the index of the first digit run followed by " día", 0 when there is none
RECURSIVE matchDia(_, _)
matchDia(msg, i) ==
  IF i >= Len(msg) THEN 0
  ELSE IF /\ msg[i].k = "d"
          /\ msg[i + 1].k = "w"
          /\ msg[i + 1].s \in DiaWords
       THEN i
       ELSE matchDia(msg, i + 1)

abs(x) == IF x < 0 THEN -x ELSE x

hasDayCount(msg) == matchDia(msg, 1) # 0

\* parseInt(message.match(/(\d+) día/)?.[1] || "0"); \d+ takes the digits
\* of the number and leaves a sign out
parseDays(msg) ==
  LET i == matchDia(msg, 1) IN IF i = 0 THEN 0 ELSE abs(msg[i].n)

----------------------------------------------------------------------------
(* The stores the engine reads: companies, paper types, toner, print jobs *)

NoCompany == "none"
NoPaper == "none"

\* getAllCompanies: rows ordered by createdAt
Companies == <<"c1", "c2">>
CompanySet == {Companies[i] : i \in 1..Len(Companies)}

\* paper_types rows, ordered by createdAt; stock is the variable paperStock
PaperTypes ==
  << [id |-> "p1", companyId |-> "c1", name |-> <<Word("Bond")>>],
     [id |-> "p2", companyId |-> "c2", name |-> <<Word("Resma"), Num(9), Word("día")>>] >>

\* toner_inventory rows, ordered by createdAt; stock is the variable tonerStock
TonerInventory ==
  << [id |-> "t1", companyId |-> "c1", name |-> <<Word("Negro")>>, color |-> "black"],
     [id |-> "t2", companyId |-> "c2", name |-> <<Word("Tricolor")>>, color |-> "tricolor"],
     [id |-> "t3", companyId |-> "c2", name |-> <<Word("Cian")>>, color |-> "cyan"] >>

PaperIds == {PaperTypes[i].id : i \in 1..Len(PaperTypes)}
TonerIds == {TonerInventory[i].id : i \in 1..Len(TonerInventory)}

\* clock: printedAt and "now" are instants, TicksPerDay of them in a day
TicksPerDay == 2
NowTick == 201
WindowDays == 90

Job(c, t, n, mode, pt) ==
  [companyId |-> c, printedAt |-> t, pageCount |-> n, colorMode |-> mode, paperTypeId |-> pt]

\* rows are in getAllPrintJobs order (printedAt descending)
\* seven days of 10 pages on p1, two colour days (100 then 400 pages, no
\* paper type), two days of 20 pages on p2, one job older than the window
SteadyHistory ==
  << Job("c1", 198, 10, "bw", "p1"), Job("c1", 197, 4, "bw", "p1"),
     Job("c1", 196, 6, "bw", "p1"), Job("c1", 194, 10, "bw", "p1"),
     Job("c1", 192, 10, "bw", "p1"), Job("c1", 190, 10, "bw", "p1"),
     Job("c1", 188, 10, "bw", "p1"), Job("c1", 186, 10, "bw", "p1"),
     Job("c1", 185, 400, "color", NoPaper), Job("c1", 183, 100, "color", NoPaper),
     Job("c2", 181, 20, "bw", "p2"), Job("c2", 179, 20, "bw", "p2"),
     Job("c1", 10, 900, "color", "p1") >>

\* one job a day for the daily totals ys, the last of them on lastDay; the
\* rows come in getAllPrintJobs order
DailyJobs(c, mode, pt, ys, lastDay) ==
  [i \in 1..Len(ys) |->
     Job(c, (lastDay - i + 1) * TicksPerDay, ys[Len(ys) - i + 1], mode, pt)]

\* seven days of 10 pages on p1, two days of 20 on p2, and two colour days
\* of v pages in each company
ColourHistory(v) ==
  DailyJobs("c1", "bw", "p1", <<10, 10, 10, 10, 10, 10, 10>>, 99)
  \o DailyJobs("c1", "color", NoPaper, <<v, v>>, 92)
  \o DailyJobs("c2", "color", NoPaper, <<v, v>>, 90)
  \o DailyJobs("c2", "bw", "p2", <<20, 20>>, 88)

\* a single day of printing on p1, a colour series that falls from 100 to
\* 2 pages, and a p2 series (3 then 1) whose average and trend cancel
SparseHistory ==
  DailyJobs("c1", "bw", "p1", <<10>>, 99)
  \o DailyJobs("c1", "color", NoPaper, <<100, 2>>, 98)
  \o DailyJobs("c2", "bw", "p2", <<3, 1>>, 96)

\* a rising series on p1 and an uneven one on p2
RisingHistory ==
  DailyJobs("c1", "bw", "p1", <<10, 20, 30>>, 99)
  \o DailyJobs("c2", "bw", "p2", <<30, 10, 20>>, 96)

\* seven days of 10 pages on p1; eleven colour days of c1, 70 pages then
\* ten times 90: a recent average of 90 and a slope of 10/11, which the
\* buffer turns into 100 pages a day; two days on p2, 7 then 13 pages, of
\* variance 9 around the mean 10
WorkedHistory ==
  DailyJobs("c1", "bw", "p1", <<10, 10, 10, 10, 10, 10, 10>>, 99)
  \o DailyJobs("c1", "color", NoPaper, <<70, 90, 90, 90, 90, 90, 90, 90, 90, 90, 90>>, 92)
  \o DailyJobs("c2", "bw", "p2", <<7, 13>>, 81)

\* no job of the window names a paper type: two colour days of c1, two
\* black-and-white days of c2, and a job on p1 older than the window
UnassignedHistory ==
  DailyJobs("c1", "color", NoPaper, <<40, 50>>, 99)
  \o DailyJobs("c2", "bw", NoPaper, <<30, 30>>, 97)
  \o <<Job("c1", 10, 900, "bw", "p1")>>

\* the stocks a PUT sets in this model
PaperStockValues == {0, 80, 100, 150, 170}
TonerStockValues == {3, 4}

----------------------------------------------------------------------------
(* getSupplyProjections: aggregation, trend, forecast *)

\* getAllPrintJobs(companyId): every job when companyId is undefined
getAllPrintJobs(jobRows, companyId) ==
  SelectSeq(jobRows, LAMBDA j : companyId = NoCompany \/ j.companyId = companyId)

getAllPaperTypes(companyId) ==
  SelectSeq(PaperTypes, LAMBDA p : companyId = NoCompany \/ p.companyId = companyId)

getAllTonerInventory(companyId) ==
  SelectSeq(TonerInventory, LAMBDA t : companyId = NoCompany \/ t.companyId = companyId)

\* a variant without the filter on printedAt
recentJobsUnfiltered(allJobs) == allJobs

\* new Date(job.printedAt) >= ninetyDaysAgo
recentJobs(allJobs) ==
  SelectSeq(allJobs, LAMBDA j : j.printedAt >= NowTick - WindowDays * TicksPerDay)

\* toISOString().split('T')[0]
dateKey(t) == t \div TicksPerDay

\* a variant that looks for an entry of the same instant, not the same day
RECURSIVE findEntryByInstant(_, _, _)
findEntryByInstant(entries, key, i) ==
  IF i > Len(entries) THEN 0
  ELSE IF entries[i].date = key * TicksPerDay THEN i
  ELSE findEntryByInstant(entries, key, i + 1)

\* position of the entry of the same calendar day, 0 when there is none
RECURSIVE findEntry(_, _, _)
findEntry(entries, key, i) ==
  IF i > Len(entries) THEN 0
  ELSE IF dateKey(entries[i].date) = key THEN i
  ELSE findEntry(entries, key, i + 1)

\* one pass of the grouping loop over the jobs that match
RECURSIVE aggregate(_, _)
aggregate(matching, entries) ==
  IF matching = <<>> THEN entries
  ELSE LET job == Head(matching)
           e == findEntry(entries, dateKey(job.printedAt), 1)
       IN aggregate(Tail(matching),
            IF e # 0
            THEN [entries EXCEPT ![e].pages = @ + job.pageCount]
            ELSE Append(entries, [date |-> job.printedAt, pages |-> job.pageCount]))

\* consumptionData.sort((a, b) => a.date.getTime() - b.date.getTime())
RECURSIVE insertByDate(_, _)
insertByDate(sorted, e) ==
  IF sorted = <<>> THEN <<e>>
  ELSE IF e.date < Head(sorted).date THEN <<e>> \o sorted
  ELSE <<Head(sorted)>> \o insertByDate(Tail(sorted), e)

RECURSIVE sortByDate(_)
sortByDate(entries) ==
  IF entries = <<>> THEN <<>>
  ELSE insertByDate(sortByDate(SubSeq(entries, 1, Len(entries) - 1)), entries[Len(entries)])

paperConsumptionByType(recent, paperTypeId) ==
  aggregate(SelectSeq(recent, LAMBDA j : j.paperTypeId # NoPaper /\ j.paperTypeId = paperTypeId), <<>>)

\* a variant that counts the jobs of any colour mode
tonerConsumptionByColorAnyMode(recent) == aggregate(recent, <<>>)

tonerConsumptionByColor(recent) ==
  aggregate(SelectSeq(recent, LAMBDA j : j.colorMode = "color"), <<>>)

RECURSIVE sumSeq(_)
sumSeq(ys) == IF ys = <<>> THEN 0 ELSE Head(ys) + sumSeq(Tail(ys))

RECURSIVE sumIndexed(_, _)
\* the sum of (i - 1) * ys[i]: the source's indices start at 0
sumIndexed(ys, i) == IF i > Len(ys) THEN 0 ELSE (i - 1) * ys[i] + sumIndexed(ys, i + 1)

RECURSIVE sumSquares(_)
sumSquares(ys) == IF ys = <<>> THEN 0 ELSE Head(ys) * Head(ys) + sumSquares(Tail(ys))

\* a variant that takes the slope between the first and the last total
calculateTrendEndpoints(ys) ==
  IF Len(ys) < 2 THEN <<0, 1>> ELSE <<ys[Len(ys)] - ys[1], Len(ys) - 1>>

\* the least-squares slope over the index, as <<numerator, denominator>>
calculateTrend(ys) ==
  IF Len(ys) < 2 THEN <<0, 1>>
  ELSE LET n == Len(ys)
           sumX == sumSeq([i \in 1..n |-> i - 1])
           sumY == sumSeq(ys)
           sumXY == sumIndexed(ys, 1)
           sumXX == sumSquares([i \in 1..n |-> i - 1])
       IN <<n * sumXY - sumX * sumY, n * sumXX - sumX * sumX>>

lastSeven(ys) == IF Len(ys) <= 7 THEN ys ELSE SubSeq(ys, Len(ys) - 6, Len(ys))

\* a variant without the floor at zero: (recentAvg + trend) * 1.1
calculatePredictiveConsumptionUnfloored(ys, trend) ==
  IF Len(ys) = 0 THEN <<0, 1>>
  ELSE LET m == IF Len(ys) < 7 THEN Len(ys) ELSE 7
       IN <<11 * (sumSeq(lastSeven(ys)) * trend[2] + trend[1] * m), 10 * m * trend[2]>>

\* a variant without the 10% buffer: max(recentAvg + trend, 0)
calculatePredictiveConsumptionNoBuffer(ys, trend) ==
  IF Len(ys) = 0 THEN <<0, 1>>
  ELSE LET m == IF Len(ys) < 7 THEN Len(ys) ELSE 7
           num == sumSeq(lastSeven(ys)) * trend[2] + trend[1] * m
       IN IF num < 0 THEN <<0, 1>> ELSE <<num, m * trend[2]>>

\* max((recentAvg + trend) * 1.1, 0), as <<numerator, denominator>>
calculatePredictiveConsumption(ys, trend) ==
  IF Len(ys) = 0 THEN <<0, 1>>
  ELSE LET m == IF Len(ys) < 7 THEN Len(ys) ELSE 7
           num == 11 * (sumSeq(lastSeven(ys)) * trend[2] + trend[1] * m)
           den == 10 * m * trend[2]
       IN IF num < 0 THEN <<0, 1>> ELSE <<num, den>>

\* Math.round(x * 100): the value in hundredths
roundCenti(x) == (2 * 100 * x[1] + x[2]) \div (2 * x[2])

\* a variant with the operands of the division exchanged; a division by 0
\* units gives Infinity, written here as a day count no stock reaches
floorDaysExchanged(units, predicted) ==
  IF units = 0 THEN 1000000 ELSE predicted[1] \div (predicted[2] * units)

\* Math.floor(units / predicted)
floorDays(units, predicted) == (units * predicted[2]) \div predicted[1]

\* a variant with the sample variance, the squared deviations divided by
\* n - 1
confidenceOfSample(ys) ==
  LET n == Len(ys)
      total == sumSeq(ys)
      nnVar == n * sumSquares(ys) - total * total
  IN IF 2 * nnVar < (n - 1) * total THEN "high"
     ELSE IF nnVar < (n - 1) * total THEN "medium"
     ELSE "low"

\* variance < mean * 0.5 ? "high" : variance < mean ? "medium" : "low"
confidenceOf(ys) ==
  LET n == Len(ys)
      total == sumSeq(ys)
      \* n * n * variance
      nnVar == n * sumSquares(ys) - total * total
  IN IF 2 * nnVar < n * total THEN "high"
     ELSE IF nnVar < n * total THEN "medium"
     ELSE "low"

\* a variant whose comparisons are strict
statusOfStrict(daysRemaining) ==
  IF daysRemaining < 3 THEN "critical"
  ELSE IF daysRemaining < 7 THEN "warning"
  ELSE IF daysRemaining < 14 THEN "caution"
  ELSE "normal"

statusOf(daysRemaining) ==
  IF daysRemaining <= 3 THEN "critical"
  ELSE IF daysRemaining <= 7 THEN "warning"
  ELSE IF daysRemaining <= 14 THEN "caution"
  ELSE "normal"

\* a variant without the branch of the tricolor cartridge
estimatedPagesPerCartridgeTwoWay(color) == IF color = "black" THEN 2500 ELSE 1200

estimatedPagesPerCartridge(color) ==
  IF color = "black" THEN 2500 ELSE IF color = "tricolor" THEN 1500 ELSE 1200

\* the projection pushed for one resource; paper carries no colour and no
\* pages-per-unit, written here as "" and 0
projectionOf(type, row, stock, units, consumptionData, perUnit) ==
  LET dailyConsumptions == [i \in 1..Len(consumptionData) |-> consumptionData[i].pages]
      trend == calculateTrend(dailyConsumptions)
      predicted == calculatePredictiveConsumption(dailyConsumptions, trend)
      daysRemaining == floorDays(units, predicted)
  IN [ type |-> type,
       id |-> row.id,
       name |-> row.name,
       color |-> IF type = "toner" THEN row.color ELSE "",
       currentStock |-> stock,
       dailyConsumption |-> roundCenti(predicted),
       trend |-> roundCenti(trend),
       estimatedPagesPerUnit |-> perUnit,
       daysRemaining |-> daysRemaining,
       estimatedDepletionDate |-> dateKey(NowTick) + daysRemaining,
       status |-> statusOf(daysRemaining),
       confidence |-> confidenceOf(dailyConsumptions),
       dataPoints |-> Len(consumptionData) ]

hasForecast(consumptionData) ==
  /\ Len(consumptionData) > 0
  /\ LET ys == [i \in 1..Len(consumptionData) |-> consumptionData[i].pages]
     IN calculatePredictiveConsumption(ys, calculateTrend(ys))[1] > 0

RECURSIVE paperProjections(_, _, _)
paperProjections(rows, recent, stockOf) ==
  IF rows = <<>> THEN <<>>
  ELSE LET paperType == Head(rows)
           consumptionData == sortByDate(paperConsumptionByType(recent, paperType.id))
           rest == paperProjections(Tail(rows), recent, stockOf)
       IN IF hasForecast(consumptionData)
          THEN <<projectionOf("paper", paperType, stockOf[paperType.id],
                              stockOf[paperType.id], consumptionData, 0)>> \o rest
          ELSE rest

RECURSIVE tonerProjections(_, _, _)
tonerProjections(rows, recent, stockOf) ==
  IF rows = <<>> THEN <<>>
  ELSE LET toner == Head(rows)
           perUnit == estimatedPagesPerCartridge(toner.color)
           consumptionData == sortByDate(tonerConsumptionByColor(recent))
           rest == tonerProjections(Tail(rows), recent, stockOf)
       IN IF hasForecast(consumptionData)
          THEN <<projectionOf("toner", toner, stockOf[toner.id],
                              stockOf[toner.id] * perUnit, consumptionData, perUnit)>> \o rest
          ELSE rest

\* projections.sort((a, b) => a.daysRemaining - b.daysRemaining), stable
RECURSIVE insertByDays(_, _)
insertByDays(sorted, p) ==
  IF sorted = <<>> THEN <<p>>
  ELSE IF p.daysRemaining < Head(sorted).daysRemaining THEN <<p>> \o sorted
  ELSE <<Head(sorted)>> \o insertByDays(Tail(sorted), p)

\* a variant that returns the projections in the order they were pushed
sortByDaysAsPushed(ps) == ps

RECURSIVE sortByDays(_)
sortByDays(ps) ==
  IF ps = <<>> THEN <<>>
  ELSE insertByDays(sortByDays(SubSeq(ps, 1, Len(ps) - 1)), ps[Len(ps)])

\* what the catch block of getSupplyProjections makes of a failed read
projectionsOnError == [raised |-> FALSE, value |-> <<>>]

\* getSupplyProjections(companyId); readsOk is FALSE when one of its three
\* store reads (jobs, paper types, toner inventory) throws
getSupplyProjections(jobRows, pStock, tStock, companyId, readsOk) ==
  IF ~readsOk THEN projectionsOnError
  ELSE LET recent == recentJobs(getAllPrintJobs(jobRows, companyId))
       IN [raised |-> FALSE,
           value |-> sortByDays(paperProjections(getAllPaperTypes(companyId), recent, pStock)
                                \o tonerProjections(getAllTonerInventory(companyId), recent, tStock))]

----------------------------------------------------------------------------
(* generateSupplyAlerts: the alert selected for a projection *)

\* a variant that takes the paper wording whatever the projection's type
resourceWordPaper(p, paper, toner) == paper

resourceWord(p, paper, toner) == IF p.type = "paper" THEN paper ELSE toner

\* the if / else-if chain on projection.daysRemaining; alertType "" when no
\* branch is taken
selectAlert(p) ==
  IF p.daysRemaining <= 0 THEN
    [ alertType |-> resourceWord(p, "paper_depleted", "toner_depleted"),
      title |-> <<Word(resourceWord(p, "Papel", "Tóner")), Word("agotado")>>,
      message |-> <<Word("El"), Word(resourceWord(p, "tipo de papel", "cartucho de tóner"))>>
                  \o p.name
                  \o <<Word("se ha agotado. Stock actual:"), Num(p.currentStock)>>,
      severity |-> "error" ]
  ELSE IF p.daysRemaining <= 3 THEN
    [ alertType |-> resourceWord(p, "paper_critical", "toner_critical"),
      title |-> <<Word(resourceWord(p, "¡Papel", "¡Tóner")), Word("crítico!")>>,
      message |-> <<Word(resourceWord(p, "Tipo de papel", "Cartucho de tóner"))>>
                  \o p.name
                  \o <<Word("se agotará en"), Num(p.daysRemaining), Word("día(s)."),
                       Word("Stock actual:"), Num(p.currentStock),
                       Word(". Consumo diario:"), Dec(p.dailyConsumption)>>,
      severity |-> "error" ]
  ELSE IF p.daysRemaining <= 7 THEN
    [ alertType |-> resourceWord(p, "paper_warning", "toner_warning"),
      title |-> <<Word(resourceWord(p, "Papel", "Tóner")), Word("bajo")>>,
      message |-> <<Word(resourceWord(p, "Tipo de papel", "Cartucho de tóner"))>>
                  \o p.name
                  \o <<Word("se agotará en"), Num(p.daysRemaining), Word("día(s)."),
                       Word("Stock actual:"), Num(p.currentStock)>>,
      severity |-> "warning" ]
  ELSE IF p.daysRemaining <= 14 THEN
    [ alertType |-> resourceWord(p, "paper_caution", "toner_caution"),
      title |-> <<Word(resourceWord(p, "Papel", "Tóner")), Word("próximo a agotarse")>>,
      message |-> <<Word(resourceWord(p, "Tipo de papel", "Cartucho de tóner"))>>
                  \o p.name
                  \o <<Word("se agotará en"), Num(p.daysRemaining), Word("día(s)."),
                       Word("Considere reabastecer.")>>,
      severity |-> "warning" ]
  ELSE
    [ alertType |-> "", title |-> <<>>, message |-> <<>>, severity |-> "info" ]

\* the projection_unreliable alert of the second loop
unreliableAlert(p) ==
  [ alertType |-> "projection_unreliable",
    title |-> <<Word("Proyección poco confiable:")>> \o p.name,
    message |-> <<Word("La proyección de agotamiento para")>> \o p.name
                \o <<Word("tiene baja confiabilidad debido a datos insuficientes o variabilidad alta."),
                     Word("Considere revisar el inventario manualmente.")>>,
    severity |-> "info" ]

\* a variant of the filter without the test of the confidence
lowConfidenceProjectionsAny(ps) ==
  SelectSeq(ps, LAMBDA p : p.daysRemaining <= 30)

\* a variant of the filter that keeps only the projections of the first loop
lowConfidenceProjectionsAlerted(ps) ==
  SelectSeq(ps, LAMBDA p : p.confidence = "low" /\ p.daysRemaining <= 14)

\* companyProjections.filter(p => p.confidence === "low" && p.daysRemaining <= 30)
lowConfidenceProjections(ps) ==
  SelectSeq(ps, LAMBDA p : p.confidence = "low" /\ p.daysRemaining <= 30)

\* the row createAlert inserts: read defaults to false
newAlert(id, compId, sel, p) ==
  [ id |-> id, companyId |-> compId, type |-> sel.alertType, title |-> sel.title,
    message |-> sel.message, severity |-> sel.severity, read |-> FALSE,
    resourceId |-> p.id, resourceType |-> p.type ]

\* getAllAlerts(compId); its catch block turns a failed read into []
getAllAlerts(store, compId, readOk) ==
  IF readOk THEN {a \in store : a.companyId = compId} ELSE {}

\* a variant of the first find() that compares resourceType with the id
similarStatusAlertsMistyped(existingAlerts, alertType, p) ==
  {a \in existingAlerts : /\ a.type = alertType
                          /\ a.resourceId = p.id
                          /\ a.resourceType = p.id
                          /\ ~a.read}

\* a variant of the first find() without the test of read
similarStatusAlertsReadToo(existingAlerts, alertType, p) ==
  {a \in existingAlerts : /\ a.type = alertType
                          /\ a.resourceId = p.id
                          /\ a.resourceType = p.type}

\* the alerts the find() of the first loop can return
similarStatusAlerts(existingAlerts, alertType, p) ==
  {a \in existingAlerts : /\ a.type = alertType
                          /\ a.resourceId = p.id
                          /\ a.resourceType = p.type
                          /\ ~a.read}

\* the alerts the find() of the second loop can return
similarUnreliableAlerts(existingAlerts, p) ==
  {a \in existingAlerts : /\ a.type = "projection_unreliable"
                          /\ a.resourceId = p.id
                          /\ ~a.read}

\* a variant without the || "0" fallback: parseInt(undefined) is NaN, and no
\* comparison with NaN holds
daysDiffNoFallback(p, similarAlert) ==
  IF hasDayCount(similarAlert.message)
  THEN abs(p.daysRemaining - parseDays(similarAlert.message))
  ELSE 0

\* Math.abs(projection.daysRemaining - parseInt(...))
daysDiff(p, similarAlert) == abs(p.daysRemaining - parseDays(similarAlert.message))

\* a variant that refreshes on any change of the day count
significantChangeAny(p, similarAlert) == daysDiff(p, similarAlert) >= 1

\* daysDiff >= 2: the old alert is superseded
significantChange(p, similarAlert) == daysDiff(p, similarAlert) >= 2

----------------------------------------------------------------------------
(* State *)

VARIABLES
  jobs,               \* print_jobs rows
  paperStock,         \* paper_types.stock by id
  tonerStock,         \* toner_inventory.stock by id
  alerts,             \* alerts rows
  nextId,             \* the id the next inserted alert row gets
  pc,                 \* where each request handler stands
  companyId,          \* the companyId the route passes on (NoCompany: undefined)
  projections,        \* generateSupplyAlerts: const projections
  companiesToCheck,   \* generateSupplyAlerts: const companiesToCheck
  compIdx,            \* position of compId in companiesToCheck
  companyProjections, \* generateSupplyAlerts: const companyProjections
  idx,                \* position of projection in the list being looped over
  similarAlert,       \* const similarAlert of the last find()
  lookupFailed,       \* the last getAllAlerts of the pass returned from its catch
  outcome,            \* the promise generateSupplyAlerts returned
  logged,             \* console.error lines of the request
  response,           \* what the route sent
  requests,           \* requests served so far
  failures            \* store operations that have thrown so far

storeVars == <<jobs, paperStock, tonerStock, alerts, nextId>>
passVars == <<projections, companiesToCheck, compIdx, companyProjections, idx,
              similarAlert, lookupFailed>>
countVars == <<requests, failures>>
vars == <<jobs, paperStock, tonerStock, alerts, nextId, pc, companyId, projections,
          companiesToCheck, compIdx, companyProjections, idx, similarAlert,
          lookupFailed, outcome, logged, response, requests, failures>>

NoAlert ==
  [ id |-> 0, companyId |-> NoCompany, type |-> "", title |-> <<>>, message |-> <<>>,
    severity |-> "", read |-> FALSE, resourceId |-> "", resourceType |-> "" ]

NoResponse == [status |-> 0, body |-> <<>>]

Init ==
  /\ jobs = SteadyHistory
  /\ paperStock = [id \in PaperIds |-> IF id = "p1" THEN 120 ELSE 250]
  /\ tonerStock = [id \in TonerIds |-> 1]
  /\ alerts = {}
  /\ nextId = 1
  /\ pc = [w \in Workers |-> "idle"]
  /\ companyId = [w \in Workers |-> NoCompany]
  /\ projections = [w \in Workers |-> <<>>]
  /\ companiesToCheck = [w \in Workers |-> <<>>]
  /\ compIdx = [w \in Workers |-> 1]
  /\ companyProjections = [w \in Workers |-> <<>>]
  /\ idx = [w \in Workers |-> 1]
  /\ similarAlert = [w \in Workers |-> NoAlert]
  /\ lookupFailed = [w \in Workers |-> FALSE]
  /\ outcome = [w \in Workers |-> "none"]
  /\ logged = [w \in Workers |-> {}]
  /\ response = [w \in Workers |-> NoResponse]
  /\ requests = 0
  /\ failures = 0

\* whether a store operation goes through: it can throw while the model's
\* budget of failures lasts
Outcomes == IF failures < MaxFailures THEN {TRUE, FALSE} ELSE {TRUE}

countFailure(ok) == failures' = IF ok THEN failures ELSE failures + 1

----------------------------------------------------------------------------
(* The alert store writes *)

\* a variant that inserts as an upsert on the key: the rows of the same
\* company, type and resource are replaced
createAlertReplacing(store, id, compId, sel, p) ==
  {a \in store : ~(/\ a.companyId = compId /\ a.type = sel.alertType
                    /\ a.resourceId = p.id /\ a.resourceType = p.type)}
  \cup {newAlert(id, compId, sel, p)}

\* db.insert(alerts).values(alert).returning()
createAlert(store, id, compId, sel, p) == store \cup {newAlert(id, compId, sel, p)}

\* a variant of the update without its where clause
markAlertReadEverywhere(store, id) == {[a EXCEPT !.read = TRUE] : a \in store}

\* a variant of the update whose where clause matches no row
markAlertReadNoRow(store, id) == store

\* db.update(alerts).set({ read: true }).where(eq(alerts.id, id))
markAlertRead(store, id) ==
  {IF a.id = id THEN [a EXCEPT !.read = TRUE] ELSE a : a \in store}

----------------------------------------------------------------------------
(* GET /api/supply-projections *)

\* a variant of the route that awaits the alert pass before it answers
SupplyProjectionsRouteAwaitingPass(w) ==
  /\ pc[w] = "idle"
  /\ \A v \in Workers : v < w => pc[v] # "idle"
  /\ requests < MaxRequests
  /\ \E cid \in CompanySet \cup {NoCompany} :
       /\ companyId' = [companyId EXCEPT ![w] = cid]
       /\ logged' = [logged EXCEPT ![w] = {}]
       /\ response' = [response EXCEPT ![w] = NoResponse]
       /\ pc' = [pc EXCEPT ![w] = "scheduled"]
  /\ outcome' = [outcome EXCEPT ![w] = "none"]
  /\ requests' = requests + 1
  /\ UNCHANGED <<storeVars, passVars, failures>>

\* the route: compute the projections, schedule the alert pass with
\* setImmediate, send the projections.  A request takes the lowest free
\* handler.
\* a variant in which the engine's projections array outlives the call: the
\* projections of a call are pushed after those the handler answered before
SupplyProjectionsRouteKeepingList(w) ==
  /\ pc[w] = "idle"
  /\ \A v \in Workers : v < w => pc[v] # "idle"
  /\ requests < MaxRequests
  /\ \E cid \in CompanySet \cup {NoCompany}, readsOk \in Outcomes :
       LET result == getSupplyProjections(jobs, paperStock, tonerStock, cid, readsOk)
       IN /\ companyId' = [companyId EXCEPT ![w] = cid]
          /\ logged' = [logged EXCEPT ![w] =
                          (IF readsOk THEN {} ELSE {"Error calculating supply projections:"})
                          \cup (IF result.raised THEN {"Supply projections error:"} ELSE {})]
          /\ response' = [response EXCEPT ![w] =
                            IF result.raised THEN [status |-> 500, body |-> <<>>]
                            ELSE [status |-> 200,
                                  body |-> sortByDays(response[w].body \o result.value)]]
          /\ pc' = [pc EXCEPT ![w] = IF result.raised THEN "idle" ELSE "scheduled"]
          /\ countFailure(readsOk)
  /\ outcome' = [outcome EXCEPT ![w] = "none"]
  /\ requests' = requests + 1
  /\ UNCHANGED <<storeVars, passVars>>

SupplyProjectionsRoute(w) ==
  /\ pc[w] = "idle"
  /\ \A v \in Workers : v < w => pc[v] # "idle"
  /\ requests < MaxRequests
  /\ \E cid \in CompanySet \cup {NoCompany}, readsOk \in Outcomes :
       LET result == getSupplyProjections(jobs, paperStock, tonerStock, cid, readsOk)
       IN /\ companyId' = [companyId EXCEPT ![w] = cid]
          /\ logged' = [logged EXCEPT ![w] =
                          (IF readsOk THEN {} ELSE {"Error calculating supply projections:"})
                          \cup (IF result.raised THEN {"Supply projections error:"} ELSE {})]
          /\ response' = [response EXCEPT ![w] =
                            IF result.raised THEN [status |-> 500, body |-> <<>>]
                            ELSE [status |-> 200, body |-> result.value]]
          /\ pc' = [pc EXCEPT ![w] = IF result.raised THEN "idle" ELSE "scheduled"]
          /\ countFailure(readsOk)
  /\ outcome' = [outcome EXCEPT ![w] = "none"]
  /\ requests' = requests + 1
  /\ UNCHANGED <<storeVars, passVars>>

----------------------------------------------------------------------------
(* generateSupplyAlerts, one action per await *)

\* a variant of the catch block that logs and throws again
generateOnErrorRethrow == [outcome |-> "rejected", line |-> "Error generating supply alerts:"]

\* the catch block of generateSupplyAlerts: log, return normally
generateOnError == [outcome |-> "resolved", line |-> "Error generating supply alerts:"]

\* the locals of a pass are gone once it has returned
dropLocals(w) ==
  /\ projections' = [projections EXCEPT ![w] = <<>>]
  /\ companiesToCheck' = [companiesToCheck EXCEPT ![w] = <<>>]
  /\ compIdx' = [compIdx EXCEPT ![w] = 1]
  /\ companyProjections' = [companyProjections EXCEPT ![w] = <<>>]
  /\ idx' = [idx EXCEPT ![w] = 1]
  /\ similarAlert' = [similarAlert EXCEPT ![w] = NoAlert]
  /\ lookupFailed' = [lookupFailed EXCEPT ![w] = FALSE]

\* an exception inside the try block ends the pass
abortPass(w) ==
  /\ pc' = [pc EXCEPT ![w] = "idle"]
  /\ outcome' = [outcome EXCEPT ![w] = generateOnError.outcome]
  /\ logged' = [logged EXCEPT ![w] = @ \cup {generateOnError.line}]
  /\ dropLocals(w)

\* the pass returns from the end of its try block
finishPass(w) ==
  /\ pc' = [pc EXCEPT ![w] = "idle"]
  /\ outcome' = [outcome EXCEPT ![w] = "resolved"]
  /\ dropLocals(w)

\* a variant that keeps the company at hand in a place the passes share: a
\* pass reads the company another pass in its loops has put there
compIdShared(w) ==
  LET others == {v \in Workers : /\ v # w
                                 /\ pc[v] \in {"status", "mark", "create",
                                               "unreliable", "unreliable_create"}}
  IN IF others = {} THEN companiesToCheck[w][compIdx[w]]
     ELSE LET v == CHOOSE v \in others : TRUE
          IN companiesToCheck[v][compIdx[v]]

compId(w) == companiesToCheck[w][compIdx[w]]

\* const projections = await this.getSupplyProjections(companyId);
\* const companiesToCheck = companyId ? [companyId] : [];
\* with a companyId the loop is entered at once: companyProjections = projections
generateSupplyAlerts_start(w) ==
  /\ pc[w] = "scheduled"
  /\ \E readsOk \in Outcomes :
       LET result == getSupplyProjections(jobs, paperStock, tonerStock, companyId[w], readsOk)
       IN /\ countFailure(readsOk)
          /\ IF result.raised
             THEN abortPass(w)
             ELSE /\ projections' = [projections EXCEPT ![w] = result.value]
                  /\ companiesToCheck' = [companiesToCheck EXCEPT ![w] =
                        IF companyId[w] # NoCompany THEN <<companyId[w]>> ELSE <<>>]
                  /\ companyProjections' = [companyProjections EXCEPT ![w] =
                        IF companyId[w] # NoCompany THEN result.value ELSE <<>>]
                  /\ pc' = [pc EXCEPT ![w] =
                        IF companyId[w] # NoCompany THEN "status" ELSE "companies"]
                  /\ logged' = [logged EXCEPT ![w] =
                        IF readsOk THEN @ ELSE @ \cup {"Error calculating supply projections:"}]
                  /\ UNCHANGED <<outcome, compIdx, idx, similarAlert, lookupFailed>>
  /\ UNCHANGED <<storeVars, companyId, response, requests>>

\* const allCompanies = await this.getAllCompanies();
generateSupplyAlerts_companies(w) ==
  /\ pc[w] = "companies"
  /\ \E readOk \in Outcomes :
       /\ countFailure(readOk)
       /\ IF readOk
          THEN /\ companiesToCheck' = [companiesToCheck EXCEPT ![w] = @ \o Companies]
               /\ pc' = [pc EXCEPT ![w] = "company"]
               /\ UNCHANGED <<outcome, logged, projections, compIdx, companyProjections,
                              idx, similarAlert, lookupFailed>>
          ELSE abortPass(w)
  /\ UNCHANGED <<storeVars, companyId, response, requests>>

\* for (const compId of companiesToCheck), without a companyId:
\* await this.getSupplyProjections(compId)
generateSupplyAlerts_company(w) ==
  /\ pc[w] = "company"
  /\ IF compIdx[w] > Len(companiesToCheck[w])
     THEN /\ finishPass(w)
          /\ UNCHANGED <<logged, failures>>
     ELSE \E readsOk \in Outcomes :
            LET result == getSupplyProjections(jobs, paperStock, tonerStock, compId(w), readsOk)
            IN /\ countFailure(readsOk)
               /\ IF result.raised
                  THEN abortPass(w)
                  ELSE /\ companyProjections' = [companyProjections EXCEPT ![w] = result.value]
                       /\ idx' = [idx EXCEPT ![w] = 1]
                       /\ pc' = [pc EXCEPT ![w] = "status"]
                       /\ logged' = [logged EXCEPT ![w] =
                             IF readsOk THEN @ ELSE @ \cup {"Error calculating supply projections:"}]
                       /\ UNCHANGED <<outcome, projections, companiesToCheck, compIdx,
                                      similarAlert, lookupFailed>>
  /\ UNCHANGED <<storeVars, companyId, response, requests>>

\* the first loop up to the decision: select the alert, read the alerts,
\* find the similar one, compare the day counts
generateSupplyAlerts_status(w) ==
  /\ pc[w] = "status"
  /\ IF idx[w] > Len(companyProjections[w])
     THEN /\ idx' = [idx EXCEPT ![w] = 1]
          /\ pc' = [pc EXCEPT ![w] = "unreliable"]
          /\ UNCHANGED <<similarAlert, lookupFailed, logged, failures>>
     ELSE LET projection == companyProjections[w][idx[w]]
              sel == selectAlert(projection)
          IN IF sel.alertType = ""
             THEN /\ idx' = [idx EXCEPT ![w] = @ + 1]
                  /\ UNCHANGED <<pc, similarAlert, lookupFailed, logged, failures>>
             ELSE \E readOk \in Outcomes :
                    LET existingAlerts == getAllAlerts(alerts, compId(w), readOk)
                        found == similarStatusAlerts(existingAlerts, sel.alertType, projection)
                    IN /\ countFailure(readOk)
                       /\ lookupFailed' = [lookupFailed EXCEPT ![w] = ~readOk]
                       /\ logged' = [logged EXCEPT ![w] =
                             IF readOk THEN @ ELSE @ \cup {"Error getting alerts:"}]
                       /\ IF found = {}
                          THEN /\ similarAlert' = [similarAlert EXCEPT ![w] = NoAlert]
                               /\ pc' = [pc EXCEPT ![w] = "create"]
                               /\ UNCHANGED idx
                          ELSE \E a \in found :
                                 /\ similarAlert' = [similarAlert EXCEPT ![w] = a]
                                 /\ IF significantChange(projection, a)
                                    THEN /\ pc' = [pc EXCEPT ![w] = "mark"]
                                         /\ UNCHANGED idx
                                    ELSE /\ idx' = [idx EXCEPT ![w] = @ + 1]
                                         /\ UNCHANGED pc
  /\ UNCHANGED <<storeVars, companyId, projections, companiesToCheck, compIdx,
                 companyProjections, outcome, response, requests>>

\* await this.markAlertRead(similarAlert.id)
generateSupplyAlerts_mark(w) ==
  /\ pc[w] = "mark"
  /\ \E writeOk \in Outcomes :
       /\ countFailure(writeOk)
       /\ IF writeOk
          THEN /\ alerts' = markAlertRead(alerts, similarAlert[w].id)
               /\ pc' = [pc EXCEPT ![w] = "create"]
               /\ UNCHANGED <<outcome, logged, passVars>>
          ELSE /\ abortPass(w)
               /\ UNCHANGED alerts
  /\ UNCHANGED <<jobs, paperStock, tonerStock, nextId, companyId, response,
                 requests>>

\* await this.createAlert({...}) of the first loop, then the next projection
generateSupplyAlerts_create(w) ==
  /\ pc[w] = "create"
  /\ \E writeOk \in Outcomes :
       /\ countFailure(writeOk)
       /\ IF writeOk
          THEN LET projection == companyProjections[w][idx[w]]
               IN /\ alerts' = createAlert(alerts, nextId, compId(w), selectAlert(projection), projection)
                  /\ nextId' = nextId + 1
                  /\ idx' = [idx EXCEPT ![w] = @ + 1]
                  /\ pc' = [pc EXCEPT ![w] = "status"]
                  /\ UNCHANGED <<outcome, logged, projections, companiesToCheck, compIdx,
                                 companyProjections, similarAlert, lookupFailed>>
          ELSE /\ abortPass(w)
               /\ UNCHANGED <<alerts, nextId>>
  /\ UNCHANGED <<jobs, paperStock, tonerStock, companyId, response,
                 requests>>

\* the second loop up to the decision; past its end, the next company
generateSupplyAlerts_unreliable(w) ==
  /\ pc[w] = "unreliable"
  /\ LET low == lowConfidenceProjections(companyProjections[w])
     IN IF idx[w] > Len(low)
        THEN /\ IF companyId[w] # NoCompany
                THEN finishPass(w)
                ELSE /\ compIdx' = [compIdx EXCEPT ![w] = @ + 1]
                     /\ pc' = [pc EXCEPT ![w] = "company"]
                     /\ UNCHANGED <<outcome, projections, companiesToCheck,
                                    companyProjections, idx, similarAlert, lookupFailed>>
             /\ UNCHANGED <<logged, failures>>
        ELSE \E readOk \in Outcomes :
               LET existingAlerts == getAllAlerts(alerts, compId(w), readOk)
                   found == similarUnreliableAlerts(existingAlerts, low[idx[w]])
               IN /\ countFailure(readOk)
                  /\ lookupFailed' = [lookupFailed EXCEPT ![w] = ~readOk]
                  /\ logged' = [logged EXCEPT ![w] =
                        IF readOk THEN @ ELSE @ \cup {"Error getting alerts:"}]
                  /\ UNCHANGED <<outcome, projections, companiesToCheck, compIdx,
                                 companyProjections>>
                  /\ IF found = {}
                     THEN /\ similarAlert' = [similarAlert EXCEPT ![w] = NoAlert]
                          /\ pc' = [pc EXCEPT ![w] = "unreliable_create"]
                          /\ UNCHANGED idx
                     ELSE \E a \in found :
                            /\ similarAlert' = [similarAlert EXCEPT ![w] = a]
                            /\ idx' = [idx EXCEPT ![w] = @ + 1]
                            /\ UNCHANGED pc
  /\ UNCHANGED <<storeVars, companyId, response, requests>>

\* await this.createAlert({... type: "projection_unreliable" ...})
generateSupplyAlerts_unreliableCreate(w) ==
  /\ pc[w] = "unreliable_create"
  /\ \E writeOk \in Outcomes :
       /\ countFailure(writeOk)
       /\ IF writeOk
          THEN LET projection == lowConfidenceProjections(companyProjections[w])[idx[w]]
               IN /\ alerts' = createAlert(alerts, nextId, compId(w), unreliableAlert(projection), projection)
                  /\ nextId' = nextId + 1
                  /\ idx' = [idx EXCEPT ![w] = @ + 1]
                  /\ pc' = [pc EXCEPT ![w] = "unreliable"]
                  /\ UNCHANGED <<outcome, logged, projections, companiesToCheck, compIdx,
                                 companyProjections, similarAlert, lookupFailed>>
          ELSE /\ abortPass(w)
               /\ UNCHANGED <<alerts, nextId>>
  /\ UNCHANGED <<jobs, paperStock, tonerStock, companyId, response,
                 requests>>

----------------------------------------------------------------------------
(* The rest of the application, as far as it touches the engine's inputs *)

\* PUT /api/paper-types/:id with a stock; the schema keeps stock >= 0
updatePaperType(id, stock) ==
  /\ requests < MaxRequests
  /\ paperStock[id] # stock
  /\ paperStock' = [paperStock EXCEPT ![id] = stock]
  /\ requests' = requests + 1
  /\ UNCHANGED <<jobs, tonerStock, alerts, nextId, pc, companyId, passVars, outcome,
                 logged, response, failures>>

\* PUT /api/toner-inventory/:id with a stock
updateTonerInventory(id, stock) ==
  /\ requests < MaxRequests
  /\ tonerStock[id] # stock
  /\ tonerStock' = [tonerStock EXCEPT ![id] = stock]
  /\ requests' = requests + 1
  /\ UNCHANGED <<jobs, paperStock, alerts, nextId, pc, companyId, passVars, outcome,
                 logged, response, failures>>

\* the bodies users post in this model: a note on paper p1 with no day count
UserAlertBodies ==
  { [ alertType |-> "paper_caution", title |-> <<Word("Nota")>>,
      message |-> <<Word("Revisar el papel Bond")>>, severity |-> "warning" ] }

\* POST /api/alerts: the body goes to createAlert as it is
PostAlert(compIdOfUser, body) ==
  /\ requests < MaxRequests
  /\ alerts' = createAlert(alerts, nextId, compIdOfUser, body, [id |-> "p1", type |-> "paper"])
  /\ nextId' = nextId + 1
  /\ requests' = requests + 1
  /\ UNCHANGED <<jobs, paperStock, tonerStock, pc, companyId, passVars, outcome,
                 logged, response, failures>>

\* PATCH /api/alerts/:id/read
PatchAlertRead(id) ==
  /\ requests < MaxRequests
  /\ \E a \in alerts : a.id = id /\ ~a.read
  /\ alerts' = markAlertRead(alerts, id)
  /\ requests' = requests + 1
  /\ UNCHANGED <<jobs, paperStock, tonerStock, nextId, pc, companyId, passVars, outcome,
                 logged, response, failures>>

\* the jobs users post in this model: one page and 200 pages on p1, and
\* 300 colour pages without a paper type, all by users of c1
PrintJobInputs ==
  { [companyId |-> "c1", pageCount |-> 1, colorMode |-> "bw", paperTypeId |-> "p1"],
    [companyId |-> "c1", pageCount |-> 200, colorMode |-> "bw", paperTypeId |-> "p1"],
    [companyId |-> "c1", pageCount |-> 300, colorMode |-> "color", paperTypeId |-> NoPaper] }

\* POST /api/print-jobs: createPrintJob inserts the row, printed_at defaults
\* to now; the new row is the first in getAllPrintJobs order
PostPrintJob(data) ==
  /\ requests < MaxRequests
  /\ jobs' = <<Job(data.companyId, NowTick, data.pageCount, data.colorMode, data.paperTypeId)>>
             \o jobs
  /\ requests' = requests + 1
  /\ UNCHANGED <<paperStock, tonerStock, alerts, nextId, pc, companyId, passVars, outcome,
                 logged, response, failures>>

----------------------------------------------------------------------------

\* no alert pass is in flight
quiet == \A w \in Workers : pc[w] = "idle"

Next ==
  \/ \E w \in Workers : quiet /\ SupplyProjectionsRoute(w)
  \/ \E w \in Workers : generateSupplyAlerts_start(w)
  \/ \E w \in Workers : generateSupplyAlerts_companies(w)
  \/ \E w \in Workers : generateSupplyAlerts_company(w)
  \/ \E w \in Workers : generateSupplyAlerts_status(w)
  \/ \E w \in Workers : generateSupplyAlerts_mark(w)
  \/ \E w \in Workers : generateSupplyAlerts_create(w)
  \/ \E w \in Workers : generateSupplyAlerts_unreliable(w)
  \/ \E w \in Workers : generateSupplyAlerts_unreliableCreate(w)
  \/ \E stock \in PaperStockValues : quiet /\ updatePaperType("p1", stock)
  \/ \E stock \in TonerStockValues : quiet /\ updateTonerInventory("t1", stock)
  \/ \E body \in UserAlertBodies : quiet /\ PostAlert("c1", body)
  \/ \E id \in 1..(nextId - 1) : quiet /\ PatchAlertRead(id)

Spec == Init /\ [][Next]_vars

TypeOK ==
  /\ nextId \in Nat
  /\ \A a \in alerts : a.id < nextId
  /\ \A w \in Workers : pc[w] \in {"idle", "scheduled", "companies", "company", "status",
                                    "mark", "create", "unreliable", "unreliable_create"}


\* Spec: requests are served one at a time (a request is taken when no alert
\* pass is in flight); stock updates and user requests on the alerts come
\* between the supply-projection requests, and store operations can throw.
\* ConcurrentSpec: supply-projection requests overlap, every store operation
\* goes through.
InitConcurrent ==
  /\ jobs = SteadyHistory
  /\ paperStock = [id \in PaperIds |-> IF id = "p1" THEN 120 ELSE 250]
  /\ tonerStock = [id \in TonerIds |-> 1]
  /\ alerts = {}
  /\ nextId = 1
  /\ pc = [w \in Workers |-> "idle"]
  /\ companyId = [w \in Workers |-> NoCompany]
  /\ projections = [w \in Workers |-> <<>>]
  /\ companiesToCheck = [w \in Workers |-> <<>>]
  /\ compIdx = [w \in Workers |-> 1]
  /\ companyProjections = [w \in Workers |-> <<>>]
  /\ idx = [w \in Workers |-> 1]
  /\ similarAlert = [w \in Workers |-> NoAlert]
  /\ lookupFailed = [w \in Workers |-> FALSE]
  /\ outcome = [w \in Workers |-> "none"]
  /\ logged = [w \in Workers |-> {}]
  /\ response = [w \in Workers |-> NoResponse]
  /\ requests = 0
  /\ failures = MaxFailures

NextConcurrent ==
  \/ \E w \in Workers : SupplyProjectionsRoute(w)
  \/ \E w \in Workers : generateSupplyAlerts_start(w)
  \/ \E w \in Workers : generateSupplyAlerts_companies(w)
  \/ \E w \in Workers : generateSupplyAlerts_company(w)
  \/ \E w \in Workers : generateSupplyAlerts_status(w)
  \/ \E w \in Workers : generateSupplyAlerts_mark(w)
  \/ \E w \in Workers : generateSupplyAlerts_create(w)
  \/ \E w \in Workers : generateSupplyAlerts_unreliable(w)
  \/ \E w \in Workers : generateSupplyAlerts_unreliableCreate(w)

ConcurrentSpec == InitConcurrent /\ [][NextConcurrent]_vars

\* ChangingSpec: requests are served one at a time, stocks are set and print
\* jobs are posted between the alert passes, every store operation goes
\* through.
InitChanging ==
  /\ jobs = SteadyHistory
  /\ paperStock = [id \in PaperIds |-> IF id = "p1" THEN 120 ELSE 250]
  /\ tonerStock = [id \in TonerIds |-> 1]
  /\ alerts = {}
  /\ nextId = 1
  /\ pc = [w \in Workers |-> "idle"]
  /\ companyId = [w \in Workers |-> NoCompany]
  /\ projections = [w \in Workers |-> <<>>]
  /\ companiesToCheck = [w \in Workers |-> <<>>]
  /\ compIdx = [w \in Workers |-> 1]
  /\ companyProjections = [w \in Workers |-> <<>>]
  /\ idx = [w \in Workers |-> 1]
  /\ similarAlert = [w \in Workers |-> NoAlert]
  /\ lookupFailed = [w \in Workers |-> FALSE]
  /\ outcome = [w \in Workers |-> "none"]
  /\ logged = [w \in Workers |-> {}]
  /\ response = [w \in Workers |-> NoResponse]
  /\ requests = 0
  /\ failures = MaxFailures

NextChanging ==
  \/ \E w \in Workers : quiet /\ SupplyProjectionsRoute(w)
  \/ \E w \in Workers : generateSupplyAlerts_start(w)
  \/ \E w \in Workers : generateSupplyAlerts_companies(w)
  \/ \E w \in Workers : generateSupplyAlerts_company(w)
  \/ \E w \in Workers : generateSupplyAlerts_status(w)
  \/ \E w \in Workers : generateSupplyAlerts_mark(w)
  \/ \E w \in Workers : generateSupplyAlerts_create(w)
  \/ \E w \in Workers : generateSupplyAlerts_unreliable(w)
  \/ \E w \in Workers : generateSupplyAlerts_unreliableCreate(w)
  \/ \E stock \in PaperStockValues : quiet /\ updatePaperType("p1", stock)
  \/ \E stock \in TonerStockValues : quiet /\ updateTonerInventory("t1", stock)
  \/ \E data \in PrintJobInputs : quiet /\ PostPrintJob(data)

ChangingSpec == InitChanging /\ [][NextChanging]_vars

\* ProjectionSpec: the stores start in one of the scenarios below, two
\* supply-projection requests are served one after the other, every store
\* operation goes through.

\* the stocks of the seeded stores, with p1 and t1 set
Stocks(p1, t1) ==
  [ paperStock |-> [id \in PaperIds |-> IF id = "p1" THEN p1 ELSE 250],
    tonerStock |-> [id \in TonerIds |-> IF id = "t1" THEN t1 ELSE 1] ]

Scenario(h, p1, t1) ==
  [jobs |-> h, paperStock |-> Stocks(p1, t1).paperStock, tonerStock |-> Stocks(p1, t1).tonerStock]

\* stocks of p1 around the day counts 0, 1, 3, 4, 7, 8, 14 and 15 at 11 pages
\* a day; colour volumes and stocks of t1 around the same day counts
BoundaryPaperStocks == {0, 12, 34, 45, 78, 89, 155, 166}
ColourVolumes == {160, 280, 300, 560, 700}
BoundaryTonerStocks == {0, 1, 2}

Scenarios ==
  {Scenario(SteadyHistory, p1, t1) : p1 \in BoundaryPaperStocks, t1 \in {1, 4}}
  \cup {Scenario(ColourHistory(v), 120, t1) : v \in ColourVolumes, t1 \in BoundaryTonerStocks}
  \cup {Scenario(h, 120, 1) : h \in {SparseHistory, RisingHistory}}
  \cup {Scenario(WorkedHistory, 100, 2)}
  \cup {Scenario(UnassignedHistory, 120, 1)}

InitProjection ==
  /\ \E sc \in Scenarios :
       /\ jobs = sc.jobs
       /\ paperStock = sc.paperStock
       /\ tonerStock = sc.tonerStock
  /\ alerts = {}
  /\ nextId = 1
  /\ pc = [w \in Workers |-> "idle"]
  /\ companyId = [w \in Workers |-> NoCompany]
  /\ projections = [w \in Workers |-> <<>>]
  /\ companiesToCheck = [w \in Workers |-> <<>>]
  /\ compIdx = [w \in Workers |-> 1]
  /\ companyProjections = [w \in Workers |-> <<>>]
  /\ idx = [w \in Workers |-> 1]
  /\ similarAlert = [w \in Workers |-> NoAlert]
  /\ lookupFailed = [w \in Workers |-> FALSE]
  /\ outcome = [w \in Workers |-> "none"]
  /\ logged = [w \in Workers |-> {}]
  /\ response = [w \in Workers |-> NoResponse]
  /\ requests = MaxRequests - 2
  /\ failures = MaxFailures

NextProjection ==
  \/ \E w \in Workers : quiet /\ SupplyProjectionsRoute(w)
  \/ \E w \in Workers : generateSupplyAlerts_start(w)
  \/ \E w \in Workers : generateSupplyAlerts_companies(w)
  \/ \E w \in Workers : generateSupplyAlerts_company(w)
  \/ \E w \in Workers : generateSupplyAlerts_status(w)
  \/ \E w \in Workers : generateSupplyAlerts_mark(w)
  \/ \E w \in Workers : generateSupplyAlerts_create(w)
  \/ \E w \in Workers : generateSupplyAlerts_unreliable(w)
  \/ \E w \in Workers : generateSupplyAlerts_unreliableCreate(w)

ProjectionSpec == InitProjection /\ [][NextProjection]_vars

\* RepeatSpec: the stores start in one of the scenarios, nothing changes
\* them, and the second request is for the company of the first; every
\* store operation goes through.
NextRepeat ==
  \/ \E w \in Workers : /\ quiet
                        /\ SupplyProjectionsRoute(w)
                        /\ (requests = MaxRequests - 2 \/ companyId'[w] = companyId[w])
  \/ \E w \in Workers : generateSupplyAlerts_start(w)
  \/ \E w \in Workers : generateSupplyAlerts_companies(w)
  \/ \E w \in Workers : generateSupplyAlerts_company(w)
  \/ \E w \in Workers : generateSupplyAlerts_status(w)
  \/ \E w \in Workers : generateSupplyAlerts_mark(w)
  \/ \E w \in Workers : generateSupplyAlerts_create(w)
  \/ \E w \in Workers : generateSupplyAlerts_unreliable(w)
  \/ \E w \in Workers : generateSupplyAlerts_unreliableCreate(w)

RepeatSpec == InitProjection /\ [][NextRepeat]_vars

----------------------------------------------------------------------------
(* Vocabulary of the properties *)

\* the unread alerts of a company under one dedup key
unreadWithKey(store, c, t, r, rt) ==
  {a \in store : a.companyId = c /\ a.type = t /\ a.resourceId = r
                 /\ a.resourceType = rt /\ ~a.read}

\* the message shows the day count d in front of "día(s)."
showsDayCount(msg, d) ==
  \E k \in 1..(Len(msg) - 1) : msg[k] = Num(d) /\ msg[k + 1] = Word("día(s).")

\* handler w takes a step
stepOf(w) == pc'[w] # pc[w] \/ idx'[w] # idx[w] \/ compIdx'[w] # compIdx[w]

\* handler w is at the lookup of the first loop for a projection with an alert type
atStatusLookup(w) ==
  /\ pc[w] = "status"
  /\ idx[w] <= Len(companyProjections[w])
  /\ selectAlert(companyProjections[w][idx[w]]).alertType # ""

\* the unread alerts in the store under the key of the projection at hand
storedSimilar(w) ==
  LET projection == companyProjections[w][idx[w]]
  IN unreadWithKey(alerts, compId(w), selectAlert(projection).alertType,
                   projection.id, projection.type)

\* the day count read off an alert's message
messageDays(a) == parseDays(a.message)

----------------------------------------------------------------------------
(* C1 *)

\* C1: when the lookup of the first loop reads the alerts and every unread
\* alert under the projection's key has a day count less than 2 away from
\* the projection's daysRemaining, the pass goes on to the next projection
\* without createAlert or markAlertRead: the store is left as it is.
C1_DedupNoOp ==
  [][\A w \in Workers :
       (atStatusLookup(w) /\ stepOf(w) /\ ~lookupFailed'[w] /\ storedSimilar(w) # {}
        /\ \A a \in storedSimilar(w) :
             abs(companyProjections[w][idx[w]].daysRemaining - messageDays(a)) < 2)
       => /\ alerts' = alerts
          /\ nextId' = nextId
          /\ pc'[w] = "status"
          /\ idx'[w] = idx[w] + 1]_vars

\* a pass has just left alone an alert that says 10 days for a projection of 9
C1_Witness ==
  \E w \in Workers :
    /\ pc[w] = "status"
    /\ idx[w] > 1
    /\ similarAlert[w] \in alerts
    /\ LET projection == companyProjections[w][idx[w] - 1]
       IN /\ similarAlert[w].type = selectAlert(projection).alertType
          /\ similarAlert[w].resourceId = projection.id
          /\ projection.daysRemaining = 9
          /\ messageDays(similarAlert[w]) = 10

----------------------------------------------------------------------------
(* C2 *)

\* C2: with the alerts read and every store write going through: if unread
\* alerts exist under the projection's key and each is 2 days or more away,
\* the pass marks one of them read (that row only) and then inserts exactly
\* one unread alert with the same key, built from the new projection (its
\* message shows the new day count unless it is a depleted alert); if no
\* unread alert exists under the key, it inserts exactly one.
C2_Supersede ==
  [][\A w \in Workers :
       /\ (atStatusLookup(w) /\ stepOf(w) /\ ~lookupFailed'[w] /\ storedSimilar(w) # {}
           /\ \A a \in storedSimilar(w) :
                abs(companyProjections[w][idx[w]].daysRemaining - messageDays(a)) >= 2)
          => /\ pc'[w] = "mark"
             /\ similarAlert'[w] \in storedSimilar(w)
             /\ alerts' = alerts
       /\ (atStatusLookup(w) /\ stepOf(w) /\ ~lookupFailed'[w] /\ storedSimilar(w) = {})
          => /\ pc'[w] = "create"
             /\ alerts' = alerts
       /\ (pc[w] = "mark" /\ pc'[w] = "create")
          => /\ alerts' = (alerts \ {similarAlert[w]})
                          \cup {[similarAlert[w] EXCEPT !.read = TRUE]}
             /\ idx'[w] = idx[w]
       /\ (pc[w] = "create" /\ pc'[w] = "status")
          => LET projection == companyProjections[w][idx[w]]
                 sel == selectAlert(projection)
             IN /\ idx'[w] = idx[w] + 1
                /\ \E a \in alerts' :
                     /\ a \notin alerts
                     /\ \A b \in alerts : b.id # a.id
                     /\ alerts' = alerts \cup {a}
                     /\ a.companyId = compId(w) /\ a.type = sel.alertType
                     /\ a.resourceId = projection.id /\ a.resourceType = projection.type
                     /\ ~a.read
                     /\ a.message = sel.message
                     /\ (projection.daysRemaining > 0
                         => showsDayCount(a.message, projection.daysRemaining))]_vars

\* a pass has marked an alert read and inserted its replacement
C2_Witness ==
  \E w \in Workers :
    /\ pc[w] = "status"
    /\ idx[w] > 1
    /\ similarAlert[w] # NoAlert
    /\ [similarAlert[w] EXCEPT !.read = TRUE] \in alerts
    /\ hasDayCount(similarAlert[w].message)
    /\ LET projection == companyProjections[w][idx[w] - 1]
       IN /\ abs(projection.daysRemaining - messageDays(similarAlert[w])) >= 2
          /\ \E a \in alerts :
               /\ a.id = nextId - 1
               /\ ~a.read
               /\ a.type = similarAlert[w].type
               /\ a.resourceId = similarAlert[w].resourceId
               /\ a.resourceId = projection.id
               /\ showsDayCount(a.message, projection.daysRemaining)

----------------------------------------------------------------------------
(* C3 *)

\* the caution alert a pass inserts for the resource of projection p when
\* p.daysRemaining is 10
isTenDayAlert(a, c, p) ==
  LET then == selectAlert([p EXCEPT !.daysRemaining = 10])
  IN /\ a.companyId = c
     /\ a.type = then.alertType
     /\ a.message = then.message
     /\ a.resourceId = p.id
     /\ a.resourceType = p.type
     /\ ~a.read

\* C3: when the store holds the unread alert a pass inserted for a resource
\* at daysRemaining 10 and a later pass looks the alerts up for the same
\* resource at daysRemaining 7, that pass goes on to mark the old alert read
\* (and then to insert the new one).
C3_TenToSevenSupersedes ==
  [][\A w \in Workers :
       (atStatusLookup(w) /\ stepOf(w) /\ ~lookupFailed'[w]
        /\ companyProjections[w][idx[w]].daysRemaining = 7)
       => \A a \in alerts :
            isTenDayAlert(a, compId(w), companyProjections[w][idx[w]])
            => (pc'[w] = "mark" /\ similarAlert'[w] = a)]_vars

----------------------------------------------------------------------------
(* C4 *)

\* C4: every createAlert of the first loop follows a lookup that, at the
\* instant it read the store, found no unread alert under the key; nothing
\* ties the insert to that read, and with two passes of one company in
\* flight the store comes to hold two unread alerts under one key
\* (C4_Witness).
C4_CheckThenCreate ==
  [][\A w \in Workers :
       (atStatusLookup(w) /\ stepOf(w) /\ pc'[w] = "create")
       => (storedSimilar(w) = {} /\ alerts' = alerts)]_vars

\* two unread alerts of one company with the same type, resource id and
\* resource type
C4_Witness ==
  \E a \in alerts, b \in alerts :
    /\ a.id # b.id
    /\ ~a.read /\ ~b.read
    /\ a.companyId = b.companyId /\ a.type = b.type
    /\ a.resourceId = b.resourceId /\ a.resourceType = b.resourceType
    /\ a.type \in {"paper_caution", "toner_warning"}

----------------------------------------------------------------------------
(* C5 *)

\* C5: a pass over all companies ends only once it has reached the last
\* company of its list: a store operation that fails on one company does
\* not keep the pass from the companies after it.
C5_BulkPassReachesEveryCompany ==
  [][\A w \in Workers :
       (pc[w] \notin {"idle", "scheduled", "companies"} /\ pc'[w] = "idle"
        /\ companyId[w] = NoCompany)
       => compIdx[w] >= Len(companiesToCheck[w])]_vars

----------------------------------------------------------------------------
(* C6 *)

\* C6: a createAlert that follows a failed read of the alerts never adds an
\* alert under a key that has an unread alert in the store: the projection
\* whose lookup failed is skipped.
C6_FailedLookupSkips ==
  [][\A w \in Workers :
       (pc[w] = "create" /\ lookupFailed[w] /\ pc'[w] = "status")
       => storedSimilar(w) = {}]_vars

----------------------------------------------------------------------------
(* C7 *)

\* C7: whichever store operation fails, getSupplyProjections returns (the
\* route never answers 500, and a route whose reads failed sends the empty
\* list) and the promise of generateSupplyAlerts is never rejected: a pass
\* that logged its error has resolved.
C7_NothingPropagates ==
  \A w \in Workers :
    /\ outcome[w] \in {"none", "resolved"}
    /\ response[w].status \in {0, 200}
    /\ "Supply projections error:" \notin logged[w]
    /\ (pc[w] = "scheduled" /\ "Error calculating supply projections:" \in logged[w])
       => response[w].body = <<>>
    /\ "Error generating supply alerts:" \in logged[w]
       => (pc[w] = "idle" /\ outcome[w] = "resolved")

\* a pass ran into a failing store operation, logged it and resolved
C7_Witness ==
  \E w \in Workers :
    /\ "Error generating supply alerts:" \in logged[w]
    /\ outcome[w] = "resolved"

----------------------------------------------------------------------------
(* C8 *)

\* C8: when the alert pass of a request is scheduled the projections have
\* been computed from the stores and sent with status 200, and no step of
\* the pass, failing or not, changes what was sent.
C8_ReadPathUnaffected ==
  [][\A w \in Workers :
       /\ pc'[w] # "idle" => response'[w].status = 200
       /\ pc[w] # "idle" => response'[w] = response[w]
       /\ (pc[w] = "idle" /\ pc'[w] = "scheduled")
          => \E readsOk \in BOOLEAN :
               response'[w].body =
                 getSupplyProjections(jobs, paperStock, tonerStock, companyId'[w], readsOk).value]_vars

\* a request got its projections and its alert pass failed afterwards
C8_Witness ==
  \E w \in Workers :
    /\ "Error generating supply alerts:" \in logged[w]
    /\ response[w].status = 200
    /\ response[w].body # <<>>

----------------------------------------------------------------------------
(* C9 *)

\* handler w is at the lookup of the second loop
atUnreliableLookup(w) ==
  /\ pc[w] = "unreliable"
  /\ idx[w] <= Len(lowConfidenceProjections(companyProjections[w]))

\* the unread projection_unreliable alerts of the company for a resource id
storedUnreliable(w, resourceId) ==
  {a \in alerts : /\ a.companyId = compId(w)
                  /\ a.type = "projection_unreliable"
                  /\ a.resourceId = resourceId
                  /\ ~a.read}

\* C9 as stated: when the second loop finds an unread projection_unreliable
\* alert for the resource and the day difference is 2 or more, it marks the
\* alert read to replace it.
C9_UnreliableSuperseded ==
  [][\A w \in Workers :
       (atUnreliableLookup(w) /\ stepOf(w) /\ ~lookupFailed'[w])
       => LET projection == lowConfidenceProjections(companyProjections[w])[idx[w]]
          IN \A a \in storedUnreliable(w, projection.id) :
               abs(projection.daysRemaining - messageDays(a)) >= 2
               => pc'[w] = "mark"]_vars

\* C9, amended: the second loop takes every projection of the company with
\* confidence "low" and daysRemaining <= 30, whether or not the first loop
\* selected a status alert for it.  With the alerts read: if no unread
\* projection_unreliable alert exists for the resource id, one is inserted
\* with severity info and the projection's resource id and type; if one
\* exists, the store is left as it is, whatever the day difference.  When
\* the loop ends, every such projection has a projection_unreliable alert.
C9_UnreliableCreateIfAbsent ==
  [][\A w \in Workers :
       /\ (atUnreliableLookup(w) /\ stepOf(w) /\ ~lookupFailed'[w])
          => LET projection == lowConfidenceProjections(companyProjections[w])[idx[w]]
             IN /\ alerts' = alerts
                /\ storedUnreliable(w, projection.id) = {} => pc'[w] = "unreliable_create"
                /\ storedUnreliable(w, projection.id) # {}
                   => (pc'[w] = "unreliable" /\ idx'[w] = idx[w] + 1)
       /\ (pc[w] = "unreliable_create" /\ pc'[w] = "unreliable")
          => LET projection == lowConfidenceProjections(companyProjections[w])[idx[w]]
             IN /\ idx'[w] = idx[w] + 1
                /\ \E a \in alerts' :
                     /\ a \notin alerts
                     /\ alerts' = alerts \cup {a}
                     /\ a.companyId = compId(w) /\ a.type = "projection_unreliable"
                     /\ a.severity = "info" /\ ~a.read
                     /\ a.resourceId = projection.id /\ a.resourceType = projection.type
       /\ (pc[w] = "unreliable" /\ pc'[w] \in {"company", "idle"})
          => \A i \in 1..Len(companyProjections[w]) :
               LET projection == companyProjections[w][i]
               IN (projection.confidence = "low" /\ projection.daysRemaining <= 30)
                  => \E a \in alerts :
                       /\ a.companyId = compId(w) /\ a.type = "projection_unreliable"
                       /\ a.resourceId = projection.id]_vars

\* the second loop has just left alone an unread projection_unreliable alert
\* for a projection that is 2 days or more away from the alert's day count
\* and for which the first loop selected no alert
C9_Witness ==
  \E w \in Workers :
    /\ pc[w] = "unreliable"
    /\ idx[w] > 1
    /\ similarAlert[w] \in alerts
    /\ similarAlert[w].type = "projection_unreliable"
    /\ LET projection == lowConfidenceProjections(companyProjections[w])[idx[w] - 1]
       IN /\ similarAlert[w].resourceId = projection.id
          /\ selectAlert(projection).alertType = ""
          /\ abs(projection.daysRemaining - messageDays(similarAlert[w])) >= 2

----------------------------------------------------------------------------
(* C10 *)

\* C10 as stated: when the unread alert found by the first loop has no day
\* count in its message, the pass supersedes it, whatever the projection's
\* daysRemaining.
C10_UnparsableAlwaysSuperseded ==
  [][\A w \in Workers :
       (atStatusLookup(w) /\ stepOf(w) /\ ~lookupFailed'[w] /\ storedSimilar(w) # {}
        /\ \A a \in storedSimilar(w) : ~hasDayCount(a.message))
       => pc'[w] = "mark"]_vars

\* C10, amended: when the unread alert found by the first loop has no day
\* count in its message, the old day count is taken as 0: the pass
\* supersedes the alert when the projection's daysRemaining is 2 or more,
\* and leaves it as it is when daysRemaining is 0 or 1; a depleted alert,
\* whose projection has daysRemaining 0, is left as it is.
C10_UnparsableCountsAsZero ==
  [][\A w \in Workers :
       (atStatusLookup(w) /\ stepOf(w) /\ ~lookupFailed'[w] /\ storedSimilar(w) # {}
        /\ \A a \in storedSimilar(w) : ~hasDayCount(a.message))
       => LET projection == companyProjections[w][idx[w]]
          IN /\ alerts' = alerts
             /\ \A a \in storedSimilar(w) : messageDays(a) = 0
             /\ projection.daysRemaining >= 2
                => (pc'[w] = "mark" /\ similarAlert'[w] \in storedSimilar(w))
             /\ projection.daysRemaining < 2
                => (pc'[w] = "status" /\ idx'[w] = idx[w] + 1)]_vars

\* a pass is about to supersede an alert whose message has no day count
C10_Witness ==
  \E w \in Workers :
    /\ pc[w] = "mark"
    /\ similarAlert[w] \in alerts
    /\ ~hasDayCount(similarAlert[w].message)
    /\ companyProjections[w][idx[w]].daysRemaining >= 2

----------------------------------------------------------------------------
(* C11 *)

\* the dedup key of an alert row
keyOf(a) == <<a.companyId, a.type, a.resourceId, a.resourceType>>

\* C11: a step of a pass leaves the alerts as they are, or inserts one unread
\* row under a fresh id, or sets read to TRUE on one unread row; no row is
\* removed, no other field changes, read never goes back to FALSE.  After a
\* markAlertRead the pass stands at the createAlert for the same projection,
\* whose key is the key of the row it marked, and the row that createAlert
\* inserts has that key.
C11_OnlyCreateAndMarkRead ==
  [][\A w \in Workers :
       (stepOf(w) /\ pc[w] # "idle")
       => /\ \/ alerts' = alerts
             \/ \E a \in alerts' :
                  /\ a \notin alerts /\ ~a.read
                  /\ \A b \in alerts : b.id # a.id
                  /\ alerts' = alerts \cup {a}
             \/ \E a \in alerts :
                  /\ ~a.read
                  /\ alerts' = (alerts \ {a}) \cup {[a EXCEPT !.read = TRUE]}
          /\ (pc[w] = "mark" /\ alerts' # alerts)
             => /\ pc'[w] = "create"
                /\ idx'[w] = idx[w]
                /\ LET projection == companyProjections[w][idx[w]]
                   IN keyOf(similarAlert[w]) =
                        <<compId(w), selectAlert(projection).alertType,
                          projection.id, projection.type>>
          /\ (pc[w] = "create" /\ alerts' # alerts /\ similarAlert[w] # NoAlert)
             => \E a \in alerts' \ alerts : keyOf(a) = keyOf(similarAlert[w])]_vars

\* a pass has marked an alert read and stands at the createAlert that
\* replaces it
C11_Witness ==
  \E w \in Workers :
    /\ pc[w] = "create"
    /\ similarAlert[w] # NoAlert
    /\ similarAlert[w] \notin alerts
    /\ [similarAlert[w] EXCEPT !.read = TRUE] \in alerts

----------------------------------------------------------------------------
(* C12 *)

\* the status alert types by resource and band
StatusAlertTypes ==
  [ paper |-> [depleted |-> "paper_depleted", critical |-> "paper_critical",
               warning |-> "paper_warning", caution |-> "paper_caution"],
    toner |-> [depleted |-> "toner_depleted", critical |-> "toner_critical",
               warning |-> "toner_warning", caution |-> "toner_caution"] ]

----------------------------------------------------------------------------
(* C13 *)

\* the alert rows stored for a resource id
alertsOf(store, resourceId) == {a \in store : a.resourceId = resourceId}

\* handler w is inside the loops over the projections of a company
inLoops(w) == pc[w] \in {"status", "mark", "create", "unreliable", "unreliable_create"}

\* C13: while a pass works on a company, for every projection of the company
\* with daysRemaining > 14: the first loop passes it by without reading the
\* alerts, no step of the pass changes a stored alert of that resource other
\* than by adding a projection_unreliable row, and unless the projection has
\* confidence "low" and daysRemaining <= 30 no step of the pass changes the
\* stored alerts of that resource at all.
C13_AboveFourteenNoAction ==
  [][\A w \in Workers :
       (inLoops(w) /\ stepOf(w))
       => \A i \in 1..Len(companyProjections[w]) :
            LET projection == companyProjections[w][i]
            IN projection.daysRemaining > 14
               => /\ (pc[w] = "status" /\ idx[w] = i)
                     => /\ pc'[w] = "status" /\ idx'[w] = i + 1
                        /\ alerts' = alerts
                        /\ similarAlert'[w] = similarAlert[w]
                  /\ alertsOf(alerts, projection.id) \subseteq alertsOf(alerts', projection.id)
                  /\ \A a \in alertsOf(alerts', projection.id) \ alertsOf(alerts, projection.id) :
                       a.type = "projection_unreliable"
                  /\ ~(projection.confidence = "low" /\ projection.daysRemaining <= 30)
                     => alertsOf(alerts', projection.id) = alertsOf(alerts, projection.id)]_vars

\* a pass has gone through both loops for a company whose paper, at 15 days
\* and high confidence, has an unread alert of an earlier pass in the store
C13_Witness ==
  \E w \in Workers :
    /\ pc[w] = "unreliable"
    /\ idx[w] > Len(lowConfidenceProjections(companyProjections[w]))
    /\ \E i \in 1..Len(companyProjections[w]) :
         LET projection == companyProjections[w][i]
         IN /\ projection.daysRemaining > 14
            /\ projection.confidence = "high"
            /\ projection.type = "paper"
            /\ \E a \in alerts : a.resourceId = projection.id /\ ~a.read

----------------------------------------------------------------------------
(* C14 *)

\* an alert row without its id
withoutId(a) ==
  [ companyId |-> a.companyId, type |-> a.type, title |-> a.title,
    message |-> a.message, severity |-> a.severity, read |-> a.read,
    resourceId |-> a.resourceId, resourceType |-> a.resourceType ]

\* the rows a pass for company c, run alone on a store without alerts of c,
\* leaves for c: one per projection with a status alert, one
\* projection_unreliable row per low-confidence projection
lonePassAlerts(c) ==
  LET ps == getSupplyProjections(jobs, paperStock, tonerStock, c, TRUE).value
      low == lowConfidenceProjections(ps)
  IN {withoutId(newAlert(0, c, selectAlert(ps[i]), ps[i])) :
        i \in {j \in 1..Len(ps) : selectAlert(ps[j]).alertType # ""}}
     \cup {withoutId(newAlert(0, c, unreliableAlert(low[i]), low[i])) : i \in 1..Len(low)}

\* both handlers have served one request each, for two different companies,
\* and both passes have returned
twoCompaniesDone ==
  /\ requests = 2
  /\ quiet
  /\ companyId[1] \in CompanySet /\ companyId[2] \in CompanySet
  /\ companyId[1] # companyId[2]

\* C14: a step of the pass of a request for company c adds and changes rows
\* of company c only; a lone pass for c leaves lonePassAlerts(c); and when
\* two requests for different companies have overlapped and both passes have
\* returned, the store holds, up to the ids, the rows of the two lone passes
\* one after the other, each once.
C14_DifferentCompaniesIndependent ==
  /\ [][\A w \in Workers :
          (stepOf(w) /\ companyId[w] \in CompanySet)
          => \A a \in (alerts' \ alerts) \cup (alerts \ alerts') :
               a.companyId = companyId[w]]_vars
  /\ []((requests = 1 /\ quiet /\ companyId[1] \in CompanySet)
        => {withoutId(a) : a \in alerts} = lonePassAlerts(companyId[1]))
  /\ [](twoCompaniesDone
        => /\ {withoutId(a) : a \in alerts}
                = lonePassAlerts(companyId[1]) \cup lonePassAlerts(companyId[2])
           /\ Cardinality(alerts) = Cardinality({withoutId(a) : a \in alerts}))

\* two passes for different companies have overlapped and returned, and the
\* store holds alerts of both
C14_Witness ==
  /\ twoCompaniesDone
  /\ \A w \in Workers : outcome[w] = "resolved"
  /\ \A c \in CompanySet : \E a \in alerts : a.companyId = c /\ ~a.read

----------------------------------------------------------------------------
(* C15 *)

\* the number of data points of the series the engine builds for a resource
\* of company c
seriesLength(type, id, c) ==
  LET recent == recentJobs(getAllPrintJobs(jobs, c))
  IN IF type = "paper" THEN Len(paperConsumptionByType(recent, id))
     ELSE Len(tonerConsumptionByColor(recent))

\* C15: a resource whose series has exactly one data point appears in no
\* response of GET /api/supply-projections and has no alert.
C15_SinglePointExcluded ==
  /\ \A w \in Workers :
       response[w].status = 200
       => \A i \in DOMAIN response[w].body :
            seriesLength(response[w].body[i].type, response[w].body[i].id, companyId[w]) # 1
  /\ \A a \in alerts : seriesLength(a.resourceType, a.resourceId, a.companyId) # 1

----------------------------------------------------------------------------
(* C16 *)

\* the projections a handler has answered with
answered(w) ==
  IF response[w].status = 200
  THEN {response[w].body[i] : i \in DOMAIN response[w].body}
  ELSE {}

BoundaryDays == {3, 4, 7, 8, 14, 15}

\* C16: every projection in a response has status critical when its
\* daysRemaining is at most 3, warning from 4 to 7, caution from 8 to 14 and
\* normal from 15 on, whether it is a paper or a toner projection.
C16_StatusBoundaries ==
  \A w \in Workers : \A p \in answered(w) :
    /\ p.type \in {"paper", "toner"}
    /\ p.daysRemaining <= 3 => p.status = "critical"
    /\ p.daysRemaining \in 4..7 => p.status = "warning"
    /\ p.daysRemaining \in 8..14 => p.status = "caution"
    /\ p.daysRemaining >= 15 => p.status = "normal"

\* a response holds a paper projection and a toner projection that both sit
\* on a boundary value
C16_Witness ==
  \E w \in Workers : \E p, t \in answered(w) :
    /\ p.type = "paper" /\ p.daysRemaining \in BoundaryDays
    /\ t.type = "toner" /\ t.daysRemaining \in BoundaryDays

----------------------------------------------------------------------------
(* C17 *)

\* C17: in every list answered by GET /api/supply-projections, each
\* projection's daysRemaining is at most that of the projection after it,
\* paper and toner projections taken together.
C17_SortedByDaysRemaining ==
  \A w \in Workers :
    response[w].status = 200
    => \A i \in 1..(Len(response[w].body) - 1) :
         response[w].body[i].daysRemaining <= response[w].body[i + 1].daysRemaining

\* an answered list in which a toner projection, pushed after the paper
\* projections, stands before a paper projection with more days left
C17_Witness ==
  \E w \in Workers :
    /\ response[w].status = 200
    /\ \E i, j \in DOMAIN response[w].body :
         /\ i < j
         /\ response[w].body[i].type = "toner"
         /\ response[w].body[j].type = "paper"
         /\ response[w].body[i].daysRemaining < response[w].body[j].daysRemaining

----------------------------------------------------------------------------
(* C18 *)

\* the resources getSupplyProjections(c) goes through, with the units it
\* divides: sheets for paper, stock times pages per cartridge for toner
resourcesOf(c) ==
  LET papers == getAllPaperTypes(c)
      toners == getAllTonerInventory(c)
  IN {[type |-> "paper", id |-> papers[i].id, units |-> paperStock[papers[i].id]] :
        i \in DOMAIN papers}
     \cup {[type |-> "toner", id |-> toners[i].id,
            units |-> tonerStock[toners[i].id] * estimatedPagesPerCartridge(toners[i].color)] :
             i \in DOMAIN toners}

\* the daily totals of a resource's series, oldest day first
dailyConsumptionsOf(type, id, c) ==
  LET recent == recentJobs(getAllPrintJobs(jobs, c))
      consumptionData == sortByDate(IF type = "paper" THEN paperConsumptionByType(recent, id)
                                    ELSE tonerConsumptionByColor(recent))
  IN [i \in 1..Len(consumptionData) |-> consumptionData[i].pages]

predictedDailyOf(type, id, c) ==
  calculatePredictiveConsumption(dailyConsumptionsOf(type, id, c),
                                 calculateTrend(dailyConsumptionsOf(type, id, c)))

\* C18: for every resource of an answered request the predicted daily
\* consumption is never negative; a resource whose prediction is 0 has no
\* projection in the answer; and every projection in the answer belongs to a
\* resource with a strictly positive prediction, its daysRemaining being the
\* whole part of units / prediction.
C18_PredictionFlooredAtZero ==
  \A w \in Workers :
    response[w].status = 200
    => \A r \in resourcesOf(companyId[w]) :
         LET predicted == predictedDailyOf(r.type, r.id, companyId[w])
             emitted == {p \in answered(w) : p.type = r.type /\ p.id = r.id}
         IN /\ predicted[1] >= 0 /\ predicted[2] > 0
            /\ predicted[1] = 0 => emitted = {}
            /\ \A p \in emitted :
                 /\ predicted[1] > 0
                 /\ p.daysRemaining * predicted[1] <= r.units * predicted[2]
                 /\ r.units * predicted[2] < (p.daysRemaining + 1) * predicted[1]

\* an answer that holds a projection while a resource of the same company,
\* whose falling series has two data points or more, is left out because its
\* prediction is 0
C18_Witness ==
  \E w \in Workers :
    /\ response[w].status = 200
    /\ answered(w) # {}
    /\ \E r \in resourcesOf(companyId[w]) :
         /\ Len(dailyConsumptionsOf(r.type, r.id, companyId[w])) >= 2
         /\ calculateTrend(dailyConsumptionsOf(r.type, r.id, companyId[w]))[1] < 0
         /\ predictedDailyOf(r.type, r.id, companyId[w])[1] = 0
         /\ \A p \in answered(w) : ~(p.type = r.type /\ p.id = r.id)

----------------------------------------------------------------------------
(* C19 *)

\* the stocks below s the engine is asked again with
LowerStocks(s) ==
  {t \in BoundaryPaperStocks \cup BoundaryTonerStocks \cup {s - 1, s \div 2} : 0 <= t /\ t <= s}

\* the daysRemaining getSupplyProjections(c) gives the resource of projection
\* p when that resource's stock is s and everything else is as it is
daysRemainingAtStock(p, c, s) ==
  LET ps == getSupplyProjections(jobs,
                                 IF p.type = "paper" THEN [paperStock EXCEPT ![p.id] = s]
                                 ELSE paperStock,
                                 IF p.type = "toner" THEN [tonerStock EXCEPT ![p.id] = s]
                                 ELSE tonerStock,
                                 c, TRUE).value
      i == CHOOSE i \in DOMAIN ps : ps[i].type = p.type /\ ps[i].id = p.id
  IN ps[i].daysRemaining

\* C19: for every projection in an answer, computed at stock s2, the engine
\* run on the same job history with that resource's stock lowered to any
\* s1 <= s2 gives a daysRemaining that is not larger.
C19_DaysMonotoneInStock ==
  \A w \in Workers : \A p \in answered(w) :
    \A s1 \in LowerStocks(p.currentStock) :
      daysRemainingAtStock(p, companyId[w], s1) <= p.daysRemaining

\* an answer with a paper projection and a projection of a toner that is not
\* black, each with strictly fewer days left at some lower stock
C19_Witness ==
  \E w \in Workers : \E p, t \in answered(w) :
    /\ p.type = "paper"
    /\ t.type = "toner" /\ t.color # "black"
    /\ \E s1 \in LowerStocks(p.currentStock) :
         daysRemainingAtStock(p, companyId[w], s1) < p.daysRemaining
    /\ \E s1 \in LowerStocks(t.currentStock) :
         daysRemainingAtStock(t, companyId[w], s1) < t.daysRemaining

----------------------------------------------------------------------------
(* C20 *)

\* handler w answers a request
answers(w) == pc[w] = "idle" /\ pc'[w] # "idle" /\ requests' = requests + 1

----------------------------------------------------------------------------
(* C21 *)

\* the daily totals of the worked example: seven days of 10 pages
SevenTens == <<10, 10, 10, 10, 10, 10, 10>>

\* C21: every paper projection in an answer has daysRemaining equal to the
\* whole part of currentStock / predictedDaily, the stock counted as pages
\* (no pages-per-unit factor); and a paper type with stock 100 whose daily
\* totals are seven times 10 is answered with trend 0, a daily consumption
\* of 11, 9 days remaining and status caution.
C21_PaperForecast ==
  \A w \in Workers : \A p \in answered(w) :
    p.type = "paper"
    => LET ys == dailyConsumptionsOf("paper", p.id, companyId[w])
           predicted == predictedDailyOf("paper", p.id, companyId[w])
       IN /\ p.currentStock = paperStock[p.id]
          /\ p.estimatedPagesPerUnit = 0
          /\ p.daysRemaining * predicted[1] <= p.currentStock * predicted[2]
          /\ p.currentStock * predicted[2] < (p.daysRemaining + 1) * predicted[1]
          /\ (ys = SevenTens /\ p.currentStock = 100)
             => /\ p.trend = 0
                /\ p.dailyConsumption = 11 * 100
                /\ p.daysRemaining = 9
                /\ p.status = "caution"

\* the worked example has been answered
C21_Witness ==
  \E w \in Workers : \E p \in answered(w) :
    /\ p.type = "paper"
    /\ dailyConsumptionsOf("paper", p.id, companyId[w]) = SevenTens
    /\ p.currentStock = 100
    /\ p.daysRemaining = 9

----------------------------------------------------------------------------
(* C22 *)

\* C22: every toner projection in an answer counts 2500 pages a cartridge
\* for black, 1500 for tricolor and 1200 for any other colour, and its
\* daysRemaining is the whole part of stock * pages per cartridge /
\* predictedDaily; a black cartridge with stock 2 and a predicted daily
\* consumption of exactly 100 is answered with 50 days remaining and status
\* normal, and the store holds no alert for it.
C22_TonerForecast ==
  \A w \in Workers : \A p \in answered(w) :
    p.type = "toner"
    => LET predicted == predictedDailyOf("toner", p.id, companyId[w])
           pagesRemaining == p.currentStock * p.estimatedPagesPerUnit
       IN /\ p.currentStock = tonerStock[p.id]
          /\ p.color = "black" => p.estimatedPagesPerUnit = 2500
          /\ p.color = "tricolor" => p.estimatedPagesPerUnit = 1500
          /\ p.color \notin {"black", "tricolor"} => p.estimatedPagesPerUnit = 1200
          /\ p.daysRemaining * predicted[1] <= pagesRemaining * predicted[2]
          /\ pagesRemaining * predicted[2] < (p.daysRemaining + 1) * predicted[1]
          /\ (p.color = "black" /\ p.currentStock = 2 /\ predicted[1] = 100 * predicted[2])
             => /\ pagesRemaining = 5000
                /\ p.dailyConsumption = 100 * 100
                /\ p.daysRemaining = 50
                /\ p.status = "normal"
                /\ \A a \in alerts : ~(a.resourceId = p.id /\ a.resourceType = "toner")

\* the worked example has been answered and the alert pass that followed has
\* returned, having stored an alert for another resource
C22_Witness ==
  \E w \in Workers : \E p \in answered(w) :
    /\ p.type = "toner" /\ p.color = "black" /\ p.currentStock = 2
    /\ p.dailyConsumption = 100 * 100
    /\ p.daysRemaining = 50
    /\ pc[w] = "idle" /\ outcome[w] = "resolved"
    /\ \E a \in alerts : a.companyId = "c1" /\ a.resourceType = "paper"

----------------------------------------------------------------------------
(* C23 *)

\* n^2 times the sum of the squared deviations of the daily totals from
\* their mean: the deviations are taken n-fold to stay in the integers
scaledSquaredDeviations(ys) ==
  sumSquares([i \in 1..Len(ys) |-> Len(ys) * ys[i] - sumSeq(ys)])

\* variance < factor/2 * mean, with variance the sum of the squared
\* deviations over n and mean the sum of the totals over n
varianceBelow(ys, halves) ==
  2 * scaledSquaredDeviations(ys) < halves * Len(ys) * Len(ys) * sumSeq(ys)

\* C23: every projection in an answer has confidence high when the
\* population variance of all the daily totals of its series is below half
\* their mean, medium when it is not but is below the mean, low otherwise;
\* a series of equal positive totals has confidence high.
C23_ConfidenceFromVariance ==
  \A w \in Workers : \A p \in answered(w) :
    LET ys == dailyConsumptionsOf(p.type, p.id, companyId[w])
    IN /\ p.dataPoints = Len(ys)
       /\ p.confidence = (IF varianceBelow(ys, 1) THEN "high"
                          ELSE IF varianceBelow(ys, 2) THEN "medium"
                          ELSE "low")
       /\ (\A i \in DOMAIN ys : ys[i] = ys[1] /\ ys[i] > 0) => p.confidence = "high"

\* an answer holds the projection of the seven totals of 10, of confidence
\* high, and a projection of confidence medium
C23_Witness ==
  \E w \in Workers : \E p, q \in answered(w) :
    /\ dailyConsumptionsOf(p.type, p.id, companyId[w]) = SevenTens
    /\ p.confidence = "high"
    /\ q.confidence = "medium"

----------------------------------------------------------------------------
(* C24 *)

\* the least-squares slope of ys over the indices 0..n-1 from the deviations:
\* Sum((i - mean i) * (y_i - mean y)) / Sum((i - mean i)^2), both sums taken
\* n*n-fold to stay in the integers; as <<numerator, denominator>>
slopeFromDeviations(ys) ==
  LET n == Len(ys)
      sumI == sumSeq([i \in 1..n |-> i - 1])
      sumY == sumSeq(ys)
  IN << sumSeq([i \in 1..n |-> (n * (i - 1) - sumI) * (n * ys[i] - sumY)]),
        sumSquares([i \in 1..n |-> n * (i - 1) - sumI]) >>

\* n * Sum(i^2) - (Sum(i))^2 over i = 0..n-1
trendDenominator(n) ==
  n * sumSquares([i \in 1..n |-> i - 1])
  - sumSeq([i \in 1..n |-> i - 1]) * sumSeq([i \in 1..n |-> i - 1])

\* C24: the trend of every projection in an answer is 0 when its series has
\* fewer than 2 points; for 2 points or more the denominator
\* n * Sum(i^2) - (Sum(i))^2 is strictly positive and the trend is the
\* least-squares slope of the daily totals over their indices 0..n-1,
\* rounded to two decimals as the projection carries it.
C24_TrendIsLeastSquaresSlope ==
  \A w \in Workers : \A p \in answered(w) :
    LET ys == dailyConsumptionsOf(p.type, p.id, companyId[w])
        n == Len(ys)
    IN IF n < 2
       THEN p.trend = 0 /\ calculateTrend(ys) = <<0, 1>>
       ELSE /\ trendDenominator(n) > 0
            /\ calculateTrend(ys)[2] = trendDenominator(n)
            /\ calculateTrend(ys)[1] * slopeFromDeviations(ys)[2]
                 = slopeFromDeviations(ys)[1] * calculateTrend(ys)[2]
            /\ p.trend = roundCenti(slopeFromDeviations(ys))

\* an answer holds a projection over three points or more whose totals are
\* not on a line and whose trend is not 0
C24_Witness ==
  \E w \in Workers : \E p \in answered(w) :
    LET ys == dailyConsumptionsOf(p.type, p.id, companyId[w])
    IN /\ Len(ys) >= 3
       /\ ys[2] - ys[1] # ys[3] - ys[2]
       /\ p.trend # 0

----------------------------------------------------------------------------
(* C25 *)

\* the series the engine builds and sorts for a resource when called for c
sortedSeriesOf(type, id, c) ==
  LET recent == recentJobs(getAllPrintJobs(jobs, c))
  IN sortByDate(IF type = "paper" THEN paperConsumptionByType(recent, id)
                ELSE tonerConsumptionByColor(recent))

\* the jobs of the window that count for a resource when called for c
matchingJobs(type, id, c) ==
  SelectSeq(recentJobs(getAllPrintJobs(jobs, c)),
            LAMBDA j : IF type = "paper" THEN j.paperTypeId = id ELSE j.colorMode = "color")

\* the pages of the matching jobs printed on calendar day d
pagesOfDay(type, id, c, d) ==
  LET ofDay == SelectSeq(matchingJobs(type, id, c), LAMBDA j : dateKey(j.printedAt) = d)
  IN sumSeq([i \in 1..Len(ofDay) |-> ofDay[i].pageCount])

\* the paper types, and one toner for the colour series all toners share
SeriesResources ==
  {<<"paper", id>> : id \in PaperIds} \cup {<<"toner", TonerInventory[1].id>>}

\* C25: for every company a call can be made for, each paper type's series
\* and the colour series hold no two entries of the same calendar day, an
\* entry for every day with a matching job, in each entry the sum of the
\* pageCount of the matching jobs of its day, and dates that strictly
\* ascend; the dataPoints of an answered projection is that number of days.
C25_OneEntryPerDay ==
  /\ \A c \in CompanySet \cup {NoCompany} : \A r \in SeriesResources :
       LET series == sortedSeriesOf(r[1], r[2], c)
           matching == matchingJobs(r[1], r[2], c)
       IN /\ \A i, j \in DOMAIN series :
               i < j => /\ dateKey(series[i].date) # dateKey(series[j].date)
                        /\ series[i].date < series[j].date
          /\ \A i \in DOMAIN series :
               series[i].pages = pagesOfDay(r[1], r[2], c, dateKey(series[i].date))
          /\ {dateKey(series[i].date) : i \in DOMAIN series}
               = {dateKey(matching[k].printedAt) : k \in DOMAIN matching}
  /\ \A w \in Workers : \A p \in answered(w) :
       p.dataPoints = Cardinality({dateKey(j.printedAt) :
                         j \in {matchingJobs(p.type, p.id, companyId[w])[k] :
                                  k \in DOMAIN matchingJobs(p.type, p.id, companyId[w])}})

\* an answered projection whose series has fewer entries than its resource
\* has matching jobs: two jobs of one day were summed
C25_Witness ==
  \E w \in Workers : \E p \in answered(w) :
    /\ p.dataPoints < Len(matchingJobs(p.type, p.id, companyId[w]))
    /\ \E i \in DOMAIN sortedSeriesOf(p.type, p.id, companyId[w]) :
         \E j \in DOMAIN jobs :
           /\ dateKey(jobs[j].printedAt) = dateKey(sortedSeriesOf(p.type, p.id, companyId[w])[i].date)
           /\ jobs[j].paperTypeId = p.id
           /\ jobs[j].pageCount < sortedSeriesOf(p.type, p.id, companyId[w])[i].pages

----------------------------------------------------------------------------
(* C26 *)

\* ninetyDaysAgo: the first instant of the window
ninetyDaysAgo == NowTick - WindowDays * TicksPerDay

\* a colour job of 5000 pages on each paper type, printed at instant t
jobsAt(t) ==
  [i \in 1..Len(PaperTypes) |-> Job(PaperTypes[i].companyId, t, 5000, "color", PaperTypes[i].id)]

\* job histories that differ from the present one in jobs older than the
\* window only: those jobs removed, their page counts changed, and jobs
\* added one instant before the window
olderJobsVaried ==
  { SelectSeq(jobs, LAMBDA j : j.printedAt >= ninetyDaysAgo),
    [i \in 1..Len(jobs) |-> IF jobs[i].printedAt < ninetyDaysAgo
                            THEN [jobs[i] EXCEPT !.pageCount = @ + 1000]
                            ELSE jobs[i]],
    jobs \o jobsAt(ninetyDaysAgo - 1) }

\* C26: the list answered by GET /api/supply-projections is the list the
\* engine gives for any job history that differs from the present one only
\* in jobs printed before now - 90 days, whether removed, changed or added.
C26_OnlyWindowJobsCount ==
  \A w \in Workers :
    response[w].status = 200
    => \A varied \in olderJobsVaried :
         getSupplyProjections(varied, paperStock, tonerStock, companyId[w], TRUE).value
           = response[w].body

\* the history holds a job older than the window, a list has been answered,
\* and the jobs that leave it unchanged when printed one instant before the
\* window change it when printed on the window's first instant
C26_Witness ==
  \E w \in Workers :
    /\ response[w].status = 200
    /\ response[w].body # <<>>
    /\ \E i \in DOMAIN jobs : jobs[i].printedAt < ninetyDaysAgo
    /\ getSupplyProjections(jobs \o jobsAt(ninetyDaysAgo), paperStock, tonerStock,
                            companyId[w], TRUE).value # response[w].body

----------------------------------------------------------------------------
(* C27 *)

\* the job history without the jobs in skipped, and with their page counts
\* changed
withoutOrChanged(skipped) ==
  { SelectSeq(jobs, LAMBDA j : j \notin skipped),
    [i \in 1..Len(jobs) |-> IF jobs[i] \in skipped THEN [jobs[i] EXCEPT !.pageCount = @ + 1]
                            ELSE jobs[i]] }

hasNoPaperType(j) == j.paperTypeId = NoPaper
isBlackAndWhite(j) == j.colorMode = "bw"

\* the jobs of the history without paper type, and those in black and white
jobsWithoutPaperType == {jobs[i] : i \in {k \in DOMAIN jobs : hasNoPaperType(jobs[k])}}
jobsInBlackAndWhite == {jobs[i] : i \in {k \in DOMAIN jobs : isBlackAndWhite(jobs[k])}}

\* the projections of one type in a list, in the order of the list
ofType(ps, type) == SelectSeq(ps, LAMBDA p : p.type = type)

\* C27: in every answer, the paper projections are those the engine gives
\* when the jobs without paperTypeId are removed or changed, the toner
\* projections are those it gives when the jobs of colorMode "bw" are
\* removed or changed, a paper type without a job in the window has no
\* projection, and when the window holds no colour job the answer holds no
\* toner projection.
C27_ContributingJobs ==
  \A w \in Workers :
    response[w].status = 200
    => LET c == companyId[w]
           window == recentJobs(getAllPrintJobs(jobs, c))
           papers == getAllPaperTypes(c)
       IN /\ \A varied \in withoutOrChanged(jobsWithoutPaperType) :
               ofType(getSupplyProjections(varied, paperStock, tonerStock, c, TRUE).value, "paper")
                 = ofType(response[w].body, "paper")
          /\ \A varied \in withoutOrChanged(jobsInBlackAndWhite) :
               ofType(getSupplyProjections(varied, paperStock, tonerStock, c, TRUE).value, "toner")
                 = ofType(response[w].body, "toner")
          /\ \A i \in DOMAIN papers :
               (\A k \in DOMAIN window : window[k].paperTypeId # papers[i].id)
               => \A p \in answered(w) : ~(p.type = "paper" /\ p.id = papers[i].id)
          /\ (\A k \in DOMAIN window : window[k].colorMode # "color")
             => ofType(response[w].body, "toner") = <<>>

\* an answer with a toner projection for a window that holds jobs without
\* paper type, black-and-white jobs, and no job of some paper type called for
C27_Witness ==
  \E w \in Workers :
    LET window == recentJobs(getAllPrintJobs(jobs, companyId[w]))
        papers == getAllPaperTypes(companyId[w])
    IN /\ response[w].status = 200
       /\ ofType(response[w].body, "toner") # <<>>
       /\ \E k \in DOMAIN window : hasNoPaperType(window[k])
       /\ \E k \in DOMAIN window : isBlackAndWhite(window[k])
       /\ \E i \in DOMAIN papers : \A k \in DOMAIN window : window[k].paperTypeId # papers[i].id

----------------------------------------------------------------------------
(* C28 *)

\* C28: when requests are served one at a time from an empty alert store,
\* with stocks set and print jobs posted between the passes and no store
\* operation failing, no two unread alerts have the same companyId, type,
\* resourceId and resourceType.
C28_AtMostOneUnreadPerKey ==
  \A a \in alerts :
    Cardinality(unreadWithKey(alerts, a.companyId, a.type, a.resourceId, a.resourceType)) <= 1

\* after a print job was posted, a pass has superseded an alert: its key
\* holds a read alert and an unread one
C28_Witness ==
  /\ jobs # SteadyHistory
  /\ \E a, b \in alerts :
       /\ a.read /\ ~b.read
       /\ keyOf(a) = keyOf(b)

----------------------------------------------------------------------------
(* C29 *)

\* C29: when a second request for the same company follows the first with
\* job history, stocks and alerts as the first pass left them, no step of
\* the second pass creates an alert or marks one read.
C29_SecondPassIdle ==
  [][\A w \in Workers :
       (requests = MaxRequests /\ stepOf(w)) => alerts' = alerts]_vars

----------------------------------------------------------------------------
(* C30 *)

\* the pass of handler w returns and nothing was logged since its request:
\* no store operation has failed
completesClean(w) == pc[w] \notin {"idle", "scheduled"} /\ pc'[w] = "idle" /\ logged'[w] = {}

\* the companies the pass of handler w goes through
companiesOfPass(w) == IF companyId[w] = NoCompany THEN CompanySet ELSE {companyId[w]}

\* the projections of company c that select a status alert
alertedProjections(c) ==
  LET ps == getSupplyProjections(jobs, paperStock, tonerStock, c, TRUE).value
  IN {ps[i] : i \in {j \in DOMAIN ps : ps[j].daysRemaining <= 14}}

\* C30: when a pass returns with no store failure, every projection of its
\* companies with daysRemaining <= 14 has an unread alert of the type its
\* daysRemaining selects; in a supersede the old alert is marked read before
\* the new one is created, so that, the old alert being the only unread one
\* under the key, a createAlert that throws there ends the pass and leaves
\* the key without an unread alert.
C30_AlertedAfterCleanPass ==
  [][\A w \in Workers :
       /\ completesClean(w)
          => \A c \in companiesOfPass(w) : \A p \in alertedProjections(c) :
               unreadWithKey(alerts', c, selectAlert(p).alertType, p.id, p.type) # {}
       /\ (pc[w] = "mark" /\ pc'[w] = "create"
           /\ storedSimilar(w) = {similarAlert[w]})
          => /\ storedSimilar(w)' = {}
             /\ [similarAlert[w] EXCEPT !.read = TRUE] \in alerts'
       /\ (pc[w] = "create" /\ similarAlert[w] # NoAlert /\ failures' # failures)
          => /\ alerts' = alerts
             /\ [similarAlert[w] EXCEPT !.read = TRUE] \in alerts
             /\ pc'[w] = "idle"
             /\ generateOnError.line \in logged'[w]]_vars

\* the second pass for c2 has marked the alert of the first read, its
\* createAlert has thrown, and the projection of p2, at 14 days or fewer,
\* is left with a read alert and no unread one
C30_Witness ==
  /\ requests = 2 /\ failures = 1 /\ nextId = 2 /\ quiet
  /\ \E w \in Workers :
       /\ generateOnError.line \in logged[w]
       /\ companyId[w] \in CompanySet
       /\ \E p \in alertedProjections(companyId[w]) :
            /\ unreadWithKey(alerts, companyId[w], selectAlert(p).alertType, p.id, p.type) = {}
            /\ \E a \in alerts :
                 /\ a.read
                 /\ keyOf(a) = <<companyId[w], selectAlert(p).alertType, p.id, p.type>>

====
